---- MODULE Spec2Model ----
(***************************************************************************)
(* Model of the self-hosted proxy/relay layer of moltworker-self:          *)
(*   - the WebSocket relay (proxySelfHostedWebSocket): upgrade handshake,  *)
(*     the four kinds of event handler, the two sockets' lifecycle;        *)
(*   - the request pipeline of the worker (middlewares, public routes,     *)
(*     catch-all proxy) and the config resolver it consumes;               *)
(*   - the gateway functions on their own arguments: the config resolver   *)
(*     on URL strings, the health prober, the HTTP relay, the exec bridge. *)
(* Spec is the relay; RouteSpec is the request pipeline; ConfigSpec,       *)
(* HttpSpec and TimedSpec are the gateway functions.                       *)
(***************************************************************************)
EXTENDS Integers, Sequences, FiniteSets, TLC

VARIABLES
    sess,      \* relay sessions: session id -> state of one proxySelfHostedWebSocket call
    env,       \* the worker's environment bindings (which settings are present)
    health,    \* whether the backend's /health currently answers 2xx
    req,       \* the request being handled by the pipeline
    rpc,       \* position of that request in the pipeline
    calls,     \* backend-bound calls and relay invocations made for that request
    resp,      \* the response returned for that request
    served,    \* number of requests completed so far
    prev,      \* the health outcome seen for the last catch-all request served
    gw         \* one call of a gateway function: its arguments, progress and result

relayVars == <<sess>>
routeVars == <<env, health, req, rpc, calls, resp, served, prev>>
vars == <<sess, env, health, req, rpc, calls, resp, served, prev, gw>>

(***************************************************************************)
(* Bounds                                                                  *)
(***************************************************************************)
\* message events the transport delivers in one session, both directions together
MaxFrames == 2
\* slashes a configured URL ends with, at most
MaxTrailingSlashes == 2
\* redirects the platform follows for one fetch, at most
MaxHops == 1
\* requests the pipeline serves in one behaviour
MaxRequests == 2

(***************************************************************************)
(* Values                                                                  *)
(***************************************************************************)
Side == {"server", "backend"}

\* the socket a handler on `side` acts on: serverWs handlers act on backendWs
\* and the reverse
Peer(side) == IF side = "server" THEN "backend" ELSE "server"

\* the close code both error handlers pass to close()
AbnormalCode == 1011

\* close events the transport can deliver: a normal closure, an application
\* code, and an abnormal closure (1006, no close frame seen)
CloseEvents ==
    { [code |-> 1000, reason |-> "bye"],
      [code |-> 4001, reason |-> "app"],
      [code |-> 1006, reason |-> ""] }

\* frames a client sends
ClientFrames ==
    { [kind |-> "text",   body |-> "hello", host |-> ""],
      [kind |-> "binary", body |-> "blob",  host |-> ""] }

\* frames the backend sends: plain JSON, JSON errors the hint rewrites, content a
\* rewrite function can choke on, and a binary frame
BackendFrames ==
    { [kind |-> "text",   body |-> "json_plain",  host |-> ""],
      [kind |-> "text",   body |-> "err_pairing", host |-> ""],
      [kind |-> "text",   body |-> "malformed",   host |-> ""],
      [kind |-> "binary", body |-> "blob",        host |-> ""] }

NoFrame == [kind |-> "none", body |-> "", host |-> ""]

MsgEv(f)      == [type |-> "message", data |-> f,       code |-> 0,      reason |-> ""]
CloseEv(c, r) == [type |-> "close",   data |-> NoFrame, code |-> c,      reason |-> r]
ErrorEv       == [type |-> "error",   data |-> NoFrame, code |-> 0,      reason |-> ""]

\* the transformMessage argument of proxySelfHostedWebSocket: absent, the
\* catch-all route's rewrite of gateway errors, or a rewrite that throws on
\* content it cannot parse
TransformKinds == {"none", "hint", "throwing"}

\* the host of the original request URL, handed to the transform
RequestHost == "worker.example"

(***************************************************************************)
(* The platform's WebSocket, as far as the relay uses it                   *)
(***************************************************************************)
\* readyState of socket `side` of session record r
ReadyState(r, side) ==
    IF ~r.accepted[side] THEN "NEW"
    ELSE IF r.closedIn[side] /\ r.closedOut[side] THEN "CLOSED"
    ELSE IF r.closedIn[side] \/ r.closedOut[side] THEN "CLOSING"
    ELSE "OPEN"

\* close() rejects the codes that may only be observed, never sent
CloseThrows(code) == code \in {1005, 1006, 1015}

\* ws.send(data) on socket `side`; seq is the arrival number of the frame in its
\* direction
SocketSend(r, side, seq, data) ==
    [r EXCEPT !.sent[side] = Append(@, [seq |-> seq, data |-> data,
                                         state |-> ReadyState(r, side)])]

\* ws.close(code, reason) on socket `side`, called by handler `by`
SocketClose(r, side, code, reason, by) ==
    [r EXCEPT !.closeCalls[side] = Append(@, [code |-> code, reason |-> reason,
                                               by |-> by, threw |-> CloseThrows(code)]),
              !.closedOut[side] = @ \/ ~CloseThrows(code),
              !.uncaught = IF CloseThrows(code) THEN @ + 1 ELSE @]

(***************************************************************************)
(* Message rewriting                                                       *)
(***************************************************************************)
\* transformErrorMessage: the gateway's error strings become hints naming the host
TransformErrorMessage(body, host) ==
    IF body = "err_token" THEN [kind |-> "text", body |-> "hint_token", host |-> host]
    ELSE IF body = "err_pairing" THEN [kind |-> "text", body |-> "hint_pairing", host |-> host]
    ELSE [kind |-> "text", body |-> body, host |-> ""]

\* the catch-all route's transform: JSON with error.message is rewritten, anything
\* else (not JSON, no error.message) comes back as it was; the try/catch makes it total
HintTransform(f, host) ==
    IF f.body \in {"err_token", "err_pairing"}
    THEN [threw |-> FALSE, data |-> TransformErrorMessage(f.body, host)]
    ELSE [threw |-> FALSE, data |-> f]

\* a caller-supplied transform with no try/catch of its own: it throws on content
\* it cannot parse
ThrowingTransform(f, host) ==
    IF f.body = "malformed"
    THEN [threw |-> TRUE, data |-> f]
    ELSE HintTransform(f, host)

\* transformMessage(data, url.host) for the transform the session was given
ApplyTransform(kind, f, host) ==
    IF kind = "throwing" THEN ThrowingTransform(f, host) ELSE HintTransform(f, host)

(***************************************************************************)
(* proxySelfHostedWebSocket: the event handlers                            *)
(***************************************************************************)
\* mutant of ServerOnMessage: the listener forwards each frame twice
ServerOnMessageTwice(r, ev) ==
    IF ReadyState(r, "backend") = "OPEN"
    THEN SocketSend(SocketSend(r, "backend", Len(r.recv["server"]), ev.data),
                    "backend", Len(r.recv["server"]), ev.data)
    ELSE r

\* serverWs 'message' handler: forward to the backend if it is open
ServerOnMessage(r, ev) ==
    IF ReadyState(r, "backend") = "OPEN"
    THEN SocketSend(r, "backend", Len(r.recv["server"]), ev.data)
    ELSE r

\* mutant of BackendOnMessage: the transform is applied without the typeof check
BackendOnMessageAnyKind(r, ev) ==
    LET seq == Len(r.recv["backend"])
        applies == r.transform # "none"
        t == ApplyTransform(r.transform, ev.data, r.host)
        r1 == IF applies
              THEN [r EXCEPT !.transformLog = Append(@, [seq |-> seq, threw |-> t.threw])]
              ELSE r
        data == IF applies THEN t.data ELSE ev.data
    IN  IF applies /\ t.threw
        THEN [r1 EXCEPT !.uncaught = @ + 1]
        ELSE IF ReadyState(r, "server") = "OPEN"
             THEN SocketSend(r1, "server", seq, data)
             ELSE r1

\* backendWs 'message' handler: rewrite text frames when a transform was given,
\* forward to the client if it is open; an exception of the transform ends the
\* handler before the send
BackendOnMessage(r, ev) ==
    LET seq == Len(r.recv["backend"])
        applies == ev.data.kind = "text" /\ r.transform # "none"
        t == ApplyTransform(r.transform, ev.data, r.host)
        r1 == IF applies
              THEN [r EXCEPT !.transformLog = Append(@, [seq |-> seq, threw |-> t.threw])]
              ELSE r
        data == IF applies THEN t.data ELSE ev.data
    IN  IF applies /\ t.threw
        THEN [r1 EXCEPT !.uncaught = @ + 1]
        ELSE IF ReadyState(r, "server") = "OPEN"
             THEN SocketSend(r1, "server", seq, data)
             ELSE r1

\* mutant of ServerOnClose: close() is called without the event's code and reason
ServerOnCloseNoCode(r, ev) ==
    SocketClose(r, "backend", 1000, "", "server.close")

\* serverWs 'close' handler
ServerOnClose(r, ev) ==
    SocketClose(r, "backend", ev.code, ev.reason, "server.close")

\* backendWs 'close' handler
BackendOnClose(r, ev) ==
    SocketClose(r, "server", ev.code, ev.reason, "backend.close")

\* mutant of ServerOnError: the error is logged and not propagated
ServerOnErrorIgnored(r, ev) == r

\* serverWs 'error' handler
ServerOnError(r, ev) ==
    SocketClose(r, "backend", AbnormalCode, "Client error", "server.error")

\* mutant of BackendOnError: the handler closes the socket that raised the error
BackendOnErrorSelf(r, ev) ==
    SocketClose(r, "backend", AbnormalCode, "Backend error", "backend.error")

\* backendWs 'error' handler
BackendOnError(r, ev) ==
    SocketClose(r, "server", AbnormalCode, "Backend error", "backend.error")

\* the handler the relay installed for an event of this type on this socket
Handle(r, side, ev) ==
    IF side = "server"
    THEN (IF ev.type = "message" THEN ServerOnMessage(r, ev)
          ELSE IF ev.type = "close" THEN ServerOnClose(r, ev)
          ELSE ServerOnError(r, ev))
    ELSE (IF ev.type = "message" THEN BackendOnMessage(r, ev)
          ELSE IF ev.type = "close" THEN BackendOnClose(r, ev)
          ELSE BackendOnError(r, ev))

\* what the platform does on the socket the event is on, before the handler runs:
\* a close event means the peer has closed this socket; a message event is the
\* next frame of its direction
Observe(r, side, ev) ==
    IF ev.type = "close"
    THEN [r EXCEPT !.closedIn[side] = TRUE,
                   !.closeEvents[side] = Append(@, [code |-> ev.code, reason |-> ev.reason])]
    ELSE IF ev.type = "error"
    THEN [r EXCEPT !.errorEvents[side] = @ + 1]
    ELSE [r EXCEPT !.recv[side] =
              Append(@, [data |-> ev.data,
                         destOpen |-> ReadyState(r, Peer(side)) = "OPEN"])]

(***************************************************************************)
(* proxySelfHostedWebSocket: the upgrade handshake                         *)
(***************************************************************************)
NoResponse == [status |-> 0, body |-> "", webSocket |-> FALSE, json |-> FALSE]

\* what the backend can answer to the upgrade request: a genuine switch, a switch
\* status without a socket, two refusals, or no answer at all (fetch rejects)
UpgradeAnswers ==
    { [threw |-> FALSE, status |-> 101, socket |-> TRUE],
      [threw |-> FALSE, status |-> 101, socket |-> FALSE],
      [threw |-> FALSE, status |-> 200, socket |-> FALSE],
      [threw |-> FALSE, status |-> 403, socket |-> FALSE],
      [threw |-> TRUE,  status |-> 0,   socket |-> FALSE] }

\* a call of proxySelfHostedWebSocket that has not started yet
NewSession(t) ==
    [ pc |-> "idle", transform |-> t, host |-> RequestHost,
      pair |-> FALSE, fetches |-> 0, answer |-> "",
      handlers |-> FALSE, response |-> NoResponse,
      accepted |-> [x \in Side |-> FALSE],
      closedIn |-> [x \in Side |-> FALSE],
      closedOut |-> [x \in Side |-> FALSE],
      wire |-> [x \in Side |-> "live"],
      inq |-> [x \in Side |-> <<>>],
      recv |-> [x \in Side |-> <<>>],
      sent |-> [x \in Side |-> <<>>],
      closeCalls |-> [x \in Side |-> <<>>],
      closeEvents |-> [x \in Side |-> <<>>],
      errorEvents |-> [x \in Side |-> 0],
      transformLog |-> <<>>,
      uncaught |-> 0 ]

\* up to the await: the socket pair is created and the upgrade request is sent
RelayStart(r) ==
    [r EXCEPT !.pc = "fetching", !.pair = TRUE, !.fetches = @ + 1]

\* accept both sockets, install the eight listeners, hand clientWs to the caller
RelayEstablish(r) ==
    [r EXCEPT !.pc = "established",
              !.accepted = [x \in Side |-> TRUE],
              !.handlers = TRUE,
              !.response = [status |-> 101, body |-> "", webSocket |-> TRUE, json |-> FALSE]]

\* one of the three failure returns
RelayFail(r, body) ==
    [r EXCEPT !.pc = "failed",
              !.response = [status |-> 502, body |-> body, webSocket |-> FALSE,
                            json |-> FALSE]]

\* the catch block: a 502 with a JSON body
RelayCatch(r) ==
    [r EXCEPT !.pc = "failed",
              !.response = [status |-> 502, body |-> "Failed to establish WebSocket connection",
                            webSocket |-> FALSE, json |-> TRUE]]

\* mutant of RelayAnswered: the socket handle is not checked after a 101
RelayAnsweredNoSocketCheck(r, ans) ==
    LET r1 == [r EXCEPT !.answer = IF ans.threw THEN "threw"
                                   ELSE IF ans.status # 101 THEN "refused"
                                   ELSE IF ~ans.socket THEN "nosocket" ELSE "switch"]
    IN  IF ans.threw THEN RelayCatch(r1)
        ELSE IF ans.status # 101 THEN RelayFail(r1, "WebSocket upgrade failed")
        ELSE RelayEstablish(r1)

\* after the await: the checks on the backend's answer
RelayAnswered(r, ans) ==
    LET r1 == [r EXCEPT !.answer = IF ans.threw THEN "threw"
                                   ELSE IF ans.status # 101 THEN "refused"
                                   ELSE IF ~ans.socket THEN "nosocket" ELSE "switch"]
    IN  IF ans.threw THEN RelayCatch(r1)
        ELSE IF ans.status # 101 THEN RelayFail(r1, "WebSocket upgrade failed")
        ELSE IF ~ans.socket THEN RelayFail(r1, "WebSocket not available")
        ELSE RelayEstablish(r1)

(***************************************************************************)
(* The transport: which events can arrive on a socket                      *)
(***************************************************************************)
\* message events delivered or pending in a session
Frames(r) ==
    Len(r.recv["server"]) + Len(r.recv["backend"])
    + Cardinality({i \in 1..Len(r.inq["server"]) : r.inq["server"][i].type = "message"})
    + Cardinality({i \in 1..Len(r.inq["backend"]) : r.inq["backend"][i].type = "message"})

\* events the transport can raise next on socket `side`: frames while the
\* connection lives, then at most one error, then at most one close
NextEvents(r, side) ==
    IF r.pc # "established" \/ r.wire[side] = "ended" THEN {}
    ELSE {CloseEv(c.code, c.reason) : c \in CloseEvents}
         \cup (IF r.wire[side] = "live" THEN {ErrorEv} ELSE {})
         \cup (IF r.wire[side] = "live" /\ Frames(r) < MaxFrames
               THEN {MsgEv(f) : f \in (IF side = "server" THEN ClientFrames ELSE BackendFrames)}
               ELSE {})

Arrive(r, side, ev) ==
    [r EXCEPT !.inq[side] = Append(@, ev),
              !.wire[side] = IF ev.type = "close" THEN "ended"
                             ELSE IF ev.type = "error" THEN "errored" ELSE @]

SessionIds == {"s1"}

(***************************************************************************)
(* Config resolver and required-env validation                             *)
(***************************************************************************)
\* the environment, by which bindings are set: mode is DEPLOYMENT_MODE = 'selfhosted',
\* dev is DEV_MODE = 'true', debugRoutes is DEBUG_ROUTES = 'true', the others are
\* the presence of SELFHOSTED_URL, MOLTBOT_GATEWAY_TOKEN, CF_ACCESS_TEAM_DOMAIN,
\* CF_ACCESS_AUD, and auth that of SELFHOSTED_AUTH_TOKEN
Envs ==
    [mode : BOOLEAN, url : BOOLEAN, token : BOOLEAN, team : BOOLEAN, aud : BOOLEAN,
     dev : BOOLEAN, debugRoutes : BOOLEAN, auth : BOOLEAN]

Null == "null"

\* buildSelfHostedConfig: null unless the mode is selfhosted and the URL is set
BuildSelfHostedConfig(e) ==
    IF ~e.mode \/ ~e.url THEN Null ELSE "config"

\* mutant of ValidateRequiredEnv: the last check is missing
ValidateRequiredEnvNoAud(e) ==
    (IF ~e.url THEN <<"SELFHOSTED_URL">> ELSE <<>>)
    \o (IF ~e.token THEN <<"MOLTBOT_GATEWAY_TOKEN">> ELSE <<>>)
    \o (IF ~e.team THEN <<"CF_ACCESS_TEAM_DOMAIN">> ELSE <<>>)

\* validateRequiredEnv: the names of the missing settings, in the order of the checks
ValidateRequiredEnv(e) ==
    (IF ~e.url THEN <<"SELFHOSTED_URL">> ELSE <<>>)
    \o (IF ~e.token THEN <<"MOLTBOT_GATEWAY_TOKEN">> ELSE <<>>)
    \o (IF ~e.team THEN <<"CF_ACCESS_TEAM_DOMAIN">> ELSE <<>>)
    \o (IF ~e.aud THEN <<"CF_ACCESS_AUD">> ELSE <<>>)

(***************************************************************************)
(* The request pipeline                                                    *)
(***************************************************************************)
\* requests by the route that serves them: the two public status routes, the CDP
\* JSON routes, the admin API, the debug routes, and everything else (catch-all)
Routes == {"sandboxHealth", "apiStatus", "cdpJson", "admin", "debug", "other"}

\* the admin routes followed here: GET devices (exec bridge), POST storage/sync,
\* POST gateway/restart, GET server/status (health probe, then a status fetch)
AdminHandlers == {"devices", "sync", "restart", "serverStatus"}

\* values of the Upgrade and Accept request headers; "" is an absent header
UpgradeHeaders == {"", "websocket", "WebSocket"}
AcceptHeaders == {"", "text/html,application/xhtml+xml"}

ToLowerCase(s) ==
    CASE s = "WebSocket" -> "websocket"
      [] s = "Approved r1" -> "approved r1"
      [] OTHER -> s

\* request.headers.get('Upgrade')?.toLowerCase() === 'websocket'
IsWebSocketRequestExact(upgrade) == upgrade = "websocket"
IsWebSocketRequest(upgrade) == ToLowerCase(upgrade) = "websocket"

\* request.headers.get('Accept')?.includes('text/html')
AcceptsHtml(accept) == accept \in {"text/html,application/xhtml+xml"}

NoRequest ==
    [route |-> "none", admin |-> "", upgrade |-> "", accept |-> "",
     html |-> FALSE, ws |-> FALSE, stages |-> <<>>]
NoResp == [status |-> 0, kind |-> "none", body |-> "", missing |-> <<>>]

Json(status, body) == [status |-> status, kind |-> "json", body |-> body, missing |-> <<>>]

\* what a health probe can return for the backend's current state: a healthy
\* backend may still time out, an unhealthy one never reads as ready
ProbeOutcomes(h) == IF h THEN {"ok", "fail"} ELSE {"fail"}

\* how a fetch of this layer other than the probe can end: a success status with a
\* JSON body, a network error, the abort of the exec bridge's signal, a non-success
\* status, a body that is not JSON
BackendOutcomes(op) ==
    IF op = "exec" THEN {"ok", "neterr", "timeout", "status", "badjson"}
    ELSE {"ok", "neterr", "status", "badjson"}

\* the configured SELFHOSTED_AUTH_TOKEN
AuthToken == "s3cret"

\* the X-Internal-Auth header of a backend-bound call: the probe, the two relays, the
\* exec bridge and the admin fetches set it when a token is configured; the fetches
\* of the CDP routes pass no headers
AuthHeader(op, e) ==
    IF op = "chrome" THEN ""
    ELSE IF e.auth THEN AuthToken ELSE ""

Call(op) == [op |-> op, res |-> "pending", auth |-> AuthHeader(op, env)]

\* the last call of the request settles with result res
Settle(cs, res) == [cs EXCEPT ![Len(cs)].res = res]

\* the request has gone through one more middleware or handler
Staged(q, stage) == [q EXCEPT !.stages = Append(@, stage)]

\* where a route's handlers are mounted: with the public routes, in front of the
\* middlewares; behind adminApi's own access middleware; or behind the global ones
MountAdminPublic(route) ==
    IF route \in {"sandboxHealth", "apiStatus", "cdpJson", "admin"} THEN "public"
    ELSE "routes"
Mount(route) ==
    IF route \in {"sandboxHealth", "apiStatus", "cdpJson"} THEN "public"
    ELSE IF route = "admin" THEN "adminHandler"
    ELSE "routes"

\* the verdicts of the identity-verification middleware
AccessVerdicts == {"pass", "reject"}

\* mutant of SkipsValidation: the admin API is let through unchecked as well
SkipsValidationAdminToo(e, q) == q.route \in {"debug", "admin"} \/ e.dev

\* the required-env middleware: which requests it lets through unchecked
SkipsValidation(e, q) == q.route = "debug" \/ e.dev

\* the required-env middleware's rejection: 503, as HTML or JSON, naming what is missing
ConfigErrorResponse(q, missing) ==
    [status |-> 503, kind |-> IF q.html THEN "html" ELSE "json",
     body |-> "Configuration error", missing |-> missing]

\* mutant of CatchAllDecision: the upgrade header is looked at before readiness
CatchAllDecisionUpgradeFirst(ready, ws, html) ==
    IF ~ready /\ ~ws /\ html THEN "loading"
    ELSE IF ws THEN "proxyWs"
    ELSE IF ~ready THEN "unavailable"
    ELSE "proxyHttp"

\* the catch-all's decision once the probe has returned
CatchAllDecision(ready, ws, html) ==
    IF ~ready /\ ~ws /\ html THEN "loading"
    ELSE IF ~ready THEN "unavailable"
    ELSE IF ws THEN "proxyWs"
    ELSE "proxyHttp"

\* statuses the HTTP relay can return to the catch-all: the backend's, or its own 502
ProxyStatuses(op) == IF op = "proxyWs" THEN {101, 502} ELSE {200, 302, 502}

\* the response of the WebSocket relay as the catch-all returns it
RelayResponse(r) ==
    [status |-> r.status,
     kind |-> IF r.status = 101 THEN "proxied" ELSE IF r.json THEN "json" ELSE "text",
     body |-> r.body, missing |-> <<>>]

\* the body of GET /api/status once the probe has returned: 'running' goes with
\* ok: true, 'not_responding' with ok: false
ApiStatusBodyAlwaysRunning(res) == "running"
ApiStatusBody(res) == IF res = "ok" THEN "running" ELSE "not_responding"

\* the ok field of an /api/status body
OkField(body) == body = "running"

\* the response of an admin route for the outcome of its backend call; healthy is
\* what the probe of GET server/status returned
AdminResponse(handler, out, healthy) ==
    CASE handler = "devices" ->
            IF out = "ok" THEN Json(200, "devices") ELSE Json(500, "error")
      [] handler = "sync" ->
            IF out = "ok" THEN Json(200, "sync")
            ELSE IF out = "status" THEN Json(500, "Sync request failed")
            ELSE Json(500, "error")
      [] handler = "restart" ->
            IF out = "ok" THEN Json(200, "restart")
            ELSE IF out = "status" THEN Json(500, "Restart request failed")
            ELSE Json(500, "error")
      [] handler = "serverStatus" ->
            IF out = "ok" THEN Json(200, "status")
            ELSE IF out = "status" THEN Json(200, IF healthy THEN "running" ELSE "unknown")
            ELSE Json(200, "error")

\* the response of a CDP JSON route for the outcome of its fetch: the status of the
\* answer is not looked at, its JSON body is returned
CdpResponse(out) ==
    IF out \in {"ok", "status"} THEN Json(200, "chrome") ELSE Json(502, "Failed")

\* the health outcome the catch-all last saw; this layer keeps none
NoPrev == [probe |-> "none"]

\* whether the catch-all probes the backend for this request: always
ProbeNeededUnlessCached(p) == p.probe # "ok"
ProbeNeeded(p) == TRUE

\* no gateway function is being followed on its own
NoCall == [fn |-> "none"]

RouteIdle ==
    /\ health = TRUE
    /\ req = NoRequest
    /\ rpc = "idle"
    /\ calls = <<>>
    /\ resp = NoResp
    /\ served = 0
    /\ prev = NoPrev
    /\ gw = NoCall

Init ==
    /\ sess \in [SessionIds -> {NewSession(t) : t \in TransformKinds}]
    /\ env = [mode |-> TRUE, url |-> TRUE, token |-> TRUE, team |-> TRUE, aud |-> TRUE,
              dev |-> FALSE, debugRoutes |-> FALSE, auth |-> TRUE]
    /\ RouteIdle

\* the relay as the catch-all route calls it, with its rewrite of gateway errors
FairInit ==
    /\ sess = [s \in SessionIds |-> NewSession("hint")]
    /\ env = [mode |-> TRUE, url |-> TRUE, token |-> TRUE, team |-> TRUE, aud |-> TRUE,
              dev |-> FALSE, debugRoutes |-> FALSE, auth |-> TRUE]
    /\ RouteIdle

RouteInit ==
    /\ sess = [s \in SessionIds |-> NewSession("hint")]
    /\ env \in Envs
    /\ RouteIdle

Respond(r) == rpc' = "done" /\ resp' = r

\* a request arrives and passes the logging middleware
Receive ==
    /\ rpc = "idle"
    /\ served < MaxRequests
    /\ \E rt \in Routes : \E up \in UpgradeHeaders : \E ac \in AcceptHeaders :
       \E ad \in (IF rt = "admin" THEN AdminHandlers ELSE {""}) :
           req' = [route |-> rt, admin |-> ad, upgrade |-> up, accept |-> ac,
                   html |-> AcceptsHtml(ac), ws |-> IsWebSocketRequest(up),
                   stages |-> <<"log">>]
    /\ rpc' = "public"
    /\ calls' = <<>>
    /\ resp' = NoResp
    /\ UNCHANGED <<gw, prev, sess, env, health, served>>

\* GET /sandbox-health and GET /api/status, up to the probe
PublicStatus ==
    /\ rpc = "public"
    /\ req.route \in {"sandboxHealth", "apiStatus"}
    /\ IF BuildSelfHostedConfig(env) = Null
       THEN /\ Respond(IF req.route = "sandboxHealth"
                       THEN Json(503, "Self-hosted configuration not found")
                       ELSE Json(200, "not_configured"))
            /\ UNCHANGED calls
       ELSE /\ rpc' = "pubProbe"
            /\ calls' = Append(calls, Call("health"))
            /\ UNCHANGED resp
    /\ UNCHANGED <<gw, prev, sess, env, health, req, served>>

\* the public routes' probe returns
PublicProbed ==
    /\ rpc = "pubProbe"
    /\ \E res \in ProbeOutcomes(health) :
          /\ calls' = Settle(calls, res)
          /\ Respond(Json(200, IF req.route = "sandboxHealth"
                               THEN (IF res = "ok" THEN "ok" ELSE "unhealthy")
                               ELSE ApiStatusBody(res)))
    /\ UNCHANGED <<gw, prev, sess, env, health, req, served>>

\* GET /cdp/json, /cdp/json/version, /cdp/json/new
CdpJson ==
    /\ rpc = "public"
    /\ req.route = "cdpJson"
    /\ IF ~env.url
       THEN Respond(Json(503, "SELFHOSTED_URL not configured")) /\ UNCHANGED calls
       ELSE /\ calls' = Append(calls, Call("chrome"))
            /\ rpc' = "cdpFetch"
            /\ UNCHANGED resp
    /\ UNCHANGED <<gw, prev, sess, env, health, req, served>>

\* the fetch to the Chrome container settles
CdpFetched ==
    /\ rpc = "cdpFetch"
    /\ \E out \in BackendOutcomes("chrome") :
          /\ calls' = Settle(calls, out)
          /\ Respond(CdpResponse(out))
    /\ UNCHANGED <<gw, prev, sess, env, health, req, served>>

\* no public or CDP route matches: on to the protected part
PassPublic ==
    /\ rpc = "public"
    /\ Mount(req.route) # "public"
    /\ rpc' = "validate"
    /\ UNCHANGED <<gw, prev, sess, env, health, req, calls, resp, served>>

\* middleware: validate the required environment variables
ValidateEnv ==
    /\ rpc = "validate"
    /\ req' = Staged(req, "validate")
    /\ IF ~SkipsValidation(env, req) /\ Len(ValidateRequiredEnv(env)) > 0
       THEN Respond(ConfigErrorResponse(req, ValidateRequiredEnv(env)))
       ELSE rpc' = "access" /\ UNCHANGED resp
    /\ UNCHANGED <<gw, prev, sess, env, health, calls, served>>

\* middleware: Cloudflare Access lets the request through or answers itself
AccessGate ==
    /\ rpc = "access"
    /\ \E v \in AccessVerdicts :
          /\ req' = Staged(req, IF v = "pass" THEN "access:pass" ELSE "access:reject")
          /\ IF v = "pass"
             THEN rpc' = "routes" /\ UNCHANGED resp
             ELSE Respond([status |-> 401, kind |-> IF req.html THEN "html" ELSE "json",
                           body |-> "denied", missing |-> <<>>])
    /\ UNCHANGED <<gw, prev, sess, env, health, calls, served>>

\* adminApi's own access middleware, in front of every /api/admin route
AdminAccessGate ==
    /\ rpc = "routes"
    /\ req.route = "admin"
    /\ \E v \in AccessVerdicts :
          /\ req' = Staged(req, IF v = "pass" THEN "adminAccess:pass"
                                ELSE "adminAccess:reject")
          /\ IF v = "pass"
             THEN rpc' = "adminHandler" /\ UNCHANGED resp
             ELSE Respond(Json(401, "denied"))
    /\ UNCHANGED <<gw, prev, sess, env, health, calls, served>>

\* an /api/admin route: the configuration, then its first backend call
AdminRoute ==
    /\ rpc = Mount("admin")
    /\ req.route = "admin"
    /\ req' = Staged(req, "admin")
    /\ IF BuildSelfHostedConfig(env) = Null
       THEN Respond(Json(503, "Self-hosted configuration missing")) /\ UNCHANGED calls
       ELSE /\ rpc' = "adminCall"
            /\ calls' = Append(calls, Call(CASE req.admin = "devices" -> "exec"
                                             [] req.admin = "sync" -> "sync"
                                             [] req.admin = "restart" -> "restart"
                                             [] req.admin = "serverStatus" -> "health"))
            /\ UNCHANGED resp
    /\ UNCHANGED <<gw, prev, sess, env, health, served>>

\* the admin route's backend call settles; GET server/status goes on from its probe
\* to its status fetch
AdminReturned ==
    /\ rpc = "adminCall"
    /\ LET op == calls[Len(calls)].op
       IN  IF op = "health"
           THEN \E res \in ProbeOutcomes(health) :
                    /\ calls' = Append(Settle(calls, res), Call("status"))
                    /\ UNCHANGED <<rpc, resp>>
           ELSE \E out \in BackendOutcomes(op) :
                    /\ calls' = Settle(calls, out)
                    /\ Respond(AdminResponse(req.admin, out, calls[1].res = "ok"))
    /\ UNCHANGED <<gw, prev, sess, env, health, req, served>>

\* /debug/*: 404 unless enabled; an enabled path no debug route serves falls
\* through to the catch-all
DebugRoute ==
    /\ rpc = "routes"
    /\ req.route = "debug"
    /\ IF ~env.debugRoutes
       THEN Respond(Json(404, "Debug routes are disabled"))
       ELSE \/ Respond(Json(200, "debug"))
            \/ rpc' = "catchall" /\ UNCHANGED resp
    /\ UNCHANGED <<gw, prev, sess, env, health, req, calls, served>>

\* no earlier route matches
OtherRoute ==
    /\ rpc = "routes"
    /\ req.route = "other"
    /\ rpc' = "catchall"
    /\ UNCHANGED <<gw, prev, sess, env, health, req, calls, resp, served>>

\* the catch-all once it knows whether the gateway is ready, cs being the calls made
\* so far: loading page, 503, or one of the two relays
CatchAllAct(ready, cs) ==
    LET d == CatchAllDecision(ready, req.ws, req.html)
    IN  IF d = "loading"
        THEN /\ Respond([status |-> 200, kind |-> "html", body |-> "loading",
                         missing |-> <<>>])
             /\ calls' = cs
        ELSE IF d = "unavailable"
        THEN /\ Respond(Json(503, "Self-hosted Moltbot gateway is not responding"))
             /\ calls' = cs
        ELSE /\ rpc' = "proxying"
             /\ calls' = Append(cs, Call(d))
             /\ UNCHANGED resp

\* the catch-all, up to the await of the health probe
CatchAllStart ==
    /\ rpc = "catchall"
    /\ req' = Staged(req, "catchall")
    /\ IF BuildSelfHostedConfig(env) = Null
       THEN Respond(Json(503, "Self-hosted configuration missing")) /\ UNCHANGED calls
       ELSE IF ProbeNeeded(prev)
       THEN /\ rpc' = "catchProbe"
            /\ calls' = Append(calls, Call("health"))
            /\ UNCHANGED resp
       ELSE CatchAllAct(prev.probe = "ok", calls)
    /\ UNCHANGED <<gw, prev, sess, env, health, served>>

\* the catch-all after the probe
CatchAllProbed ==
    /\ rpc = "catchProbe"
    /\ \E res \in ProbeOutcomes(health) : CatchAllAct(res = "ok", Settle(calls, res))
    /\ UNCHANGED <<gw, prev, sess, env, health, req, served>>

\* the relay the catch-all called returns its response: the WebSocket relay what it
\* makes of the backend's answer to the upgrade, the HTTP relay the backend's
\* response or its own 502
ProxyReturned ==
    /\ rpc = "proxying"
    /\ IF calls[Len(calls)].op = "proxyWs"
       THEN \E ans \in UpgradeAnswers :
               LET r == RelayAnswered(RelayStart(NewSession("hint")), ans).response
               IN  /\ calls' = Settle(calls, IF r.status = 101 THEN "ok" ELSE "fail")
                   /\ Respond(RelayResponse(r))
       ELSE \E st \in ProxyStatuses("proxyHttp") :
               /\ calls' = Settle(calls, IF st = 502 THEN "fail" ELSE "ok")
               /\ Respond(IF st = 502
                          THEN Json(502, "Failed to connect to self-hosted server")
                          ELSE [status |-> st, kind |-> "proxied", body |-> "",
                                missing |-> <<>>])
    /\ UNCHANGED <<gw, prev, sess, env, health, req, served>>

\* the response is sent; nothing of the request is kept but what the backend was
\* last seen as by a catch-all probe
Finish ==
    /\ rpc = "done"
    /\ rpc' = "idle"
    /\ served' = served + 1
    /\ prev' = IF calls # <<>> /\ calls[1].op = "health"
                  /\ \E i \in 1..Len(req.stages) : req.stages[i] = "catchall"
               THEN [probe |-> calls[1].res]
               ELSE prev
    /\ UNCHANGED <<gw, sess, env, health, req, calls, resp>>

\* the backend goes down or comes back
HealthFlip ==
    /\ health' = ~health
    /\ UNCHANGED <<gw, prev, sess, env, req, rpc, calls, resp, served>>

RouteNext ==
    \/ Receive
    \/ PublicStatus
    \/ PublicProbed
    \/ CdpJson
    \/ CdpFetched
    \/ PassPublic
    \/ ValidateEnv
    \/ AccessGate
    \/ AdminAccessGate
    \/ AdminRoute
    \/ AdminReturned
    \/ DebugRoute
    \/ OtherRoute
    \/ CatchAllStart
    \/ CatchAllProbed
    \/ ProxyReturned
    \/ Finish
    \/ HealthFlip

RouteSpec == RouteInit /\ [][RouteNext]_vars

(***************************************************************************)
(* The relay as a state machine                                            *)
(***************************************************************************)
\* proxySelfHostedWebSocket is called
Invoke(s) ==
    /\ sess[s].pc = "idle"
    /\ sess' = [sess EXCEPT ![s] = RelayStart(@)]
    /\ UNCHANGED <<routeVars, gw>>

\* the upgrade fetch settles
Answered(s) ==
    /\ sess[s].pc = "fetching"
    /\ \E ans \in UpgradeAnswers : sess' = [sess EXCEPT ![s] = RelayAnswered(@, ans)]
    /\ UNCHANGED <<routeVars, gw>>

\* the transport raises an event on one of the two sockets
Deliver(s) ==
    /\ \E side \in Side : \E ev \in NextEvents(sess[s], side) :
           sess' = [sess EXCEPT ![s] = Arrive(@, side, ev)]
    /\ UNCHANGED <<routeVars, gw>>

\* the event loop runs the listener of the oldest pending event of a socket
Dispatch(s, side) ==
    /\ sess[s].handlers
    /\ sess[s].inq[side] # <<>>
    /\ LET ev == Head(sess[s].inq[side])
           r0 == [sess[s] EXCEPT !.inq[side] = Tail(@)]
       IN  sess' = [sess EXCEPT ![s] = Handle(Observe(r0, side, ev), side, ev)]
    /\ UNCHANGED <<routeVars, gw>>

Next ==
    \E s \in SessionIds :
        \/ Invoke(s)
        \/ Answered(s)
        \/ Deliver(s)
        \/ Dispatch(s, "server")
        \/ Dispatch(s, "backend")

Spec == Init /\ [][Next]_vars

\* the event loop does not leave a pending event undispatched
FairSpec ==
    /\ FairInit /\ [][Next]_vars
    /\ \A s \in SessionIds : \A side \in Side : WF_vars(Dispatch(s, side))

(***************************************************************************)
(* Claims about the relay                                                  *)
(***************************************************************************)
ByClose(side) == IF side = "server" THEN "server.close" ELSE "backend.close"
ByError(side) == IF side = "server" THEN "server.error" ELSE "backend.error"

\* positions of the close() calls made on socket `side` by handler `by`
CallsBy(r, side, by) ==
    {j \in 1..Len(r.closeCalls[side]) : r.closeCalls[side][j].by = by}

\* C2: every close event (code c, reason r) handled on one socket of an established
\* session has produced exactly one close(c, r) call on the other socket, in both
\* directions and for every code and reason the transport delivers.
C2_ClosePropagatesCodeAndReason ==
    \A s \in SessionIds : \A x \in Side :
        LET r == sess[s] IN
        /\ Cardinality(CallsBy(r, Peer(x), ByClose(x))) = Len(r.closeEvents[x])
        /\ \A i \in 1..Len(r.closeEvents[x]) :
               \E j \in CallsBy(r, Peer(x), ByClose(x)) :
                   /\ r.closeCalls[Peer(x)][j].code = r.closeEvents[x][i].code
                   /\ r.closeCalls[Peer(x)][j].reason = r.closeEvents[x][i].reason

\* C2 witness: close events were handled on both sockets, one of them with the
\* abnormal code 1006
C2_Witness ==
    \E s \in SessionIds :
        /\ Len(sess[s].closeEvents["server"]) = 1
        /\ Len(sess[s].closeEvents["backend"]) = 1
        /\ sess[s].closeEvents["server"][1].code = 1006
        /\ sess[s].closeEvents["backend"][1].code = 4001

\* C3: every error event handled on a socket has produced one close call with code
\* 1011 on the other socket, and no error handler ever calls close on its own socket.
C3_ErrorClosesPeerWith1011 ==
    \A s \in SessionIds : \A x \in Side :
        LET r == sess[s] IN
        /\ CallsBy(r, x, ByError(x)) = {}
        /\ Cardinality(CallsBy(r, Peer(x), ByError(x))) = r.errorEvents[x]
        /\ \A j \in CallsBy(r, Peer(x), ByError(x)) :
               r.closeCalls[Peer(x)][j].code = 1011

\* C3 witness: an error event was handled on each of the two sockets
C3_Witness ==
    \E s \in SessionIds :
        /\ sess[s].errorEvents["server"] = 1
        /\ sess[s].errorEvents["backend"] = 1

\* arrival numbers of the frames of direction x -> Peer(x) that found the
\* destination open when they arrived
ArrivedOpen(r, x) == {i \in 1..Len(r.recv[x]) : r.recv[x][i].destOpen}

\* arrival numbers of the frames sent on socket `side`
SentSeqs(r, side) == {r.sent[side][j].seq : j \in 1..Len(r.sent[side])}

\* C4 (as claimed): in either direction a frame is sent to the destination exactly
\* when the destination was OPEN at its arrival, once, and no send is ever made on
\* a socket that is not open.
C4_SentIffDestinationOpen ==
    \A s \in SessionIds : \A x \in Side :
        LET r == sess[s] IN
        /\ SentSeqs(r, Peer(x)) = ArrivedOpen(r, x)
        /\ Len(r.sent[Peer(x)]) = Cardinality(ArrivedOpen(r, x))
        /\ \A j \in 1..Len(r.sent[x]) : r.sent[x][j].state = "OPEN"

\* C5: when the backend answers the upgrade with a status other than 101, or with
\* 101 and no socket, the relay returns 502, hands no socket to the caller, has
\* accepted neither socket and installed no handler, and relays nothing.
C5_NoPartialRelay ==
    \A s \in SessionIds :
        LET r == sess[s] IN
        r.answer \in {"refused", "nosocket"} =>
            /\ r.pc = "failed"
            /\ r.response.status = 502
            /\ ~r.response.webSocket
            /\ ~r.handlers
            /\ \A x \in Side : ~r.accepted[x] /\ r.sent[x] = <<>> /\ r.closeCalls[x] = <<>>

\* C5 witness: the backend answered 101 without a socket handle
C5_Witness ==
    \E s \in SessionIds : sess[s].answer = "nosocket" /\ sess[s].response.status = 502

\* C6 (as claimed): a backend text frame on which the transform throws is still
\* forwarded, untransformed, to a client that is open, and no socket is closed by it.
C6_TransformFailsOpen ==
    \A s \in SessionIds :
        LET r == sess[s] IN
        \A k \in 1..Len(r.transformLog) :
            (r.transformLog[k].threw /\ r.recv["backend"][r.transformLog[k].seq].destOpen) =>
                \E j \in 1..Len(r.sent["server"]) :
                    /\ r.sent["server"][j].seq = r.transformLog[k].seq
                    /\ r.sent["server"][j].data = r.recv["backend"][r.transformLog[k].seq].data

\* C7: with a transform supplied, the transform is called on exactly the text frames
\* arriving from the backend; every frame sent to the backend, and every binary frame
\* sent to the client, carries the payload that arrived, and a text frame sent to
\* the client carries the transform's result.
C7_TransformOnlyBackendText ==
    \A s \in SessionIds :
        LET r == sess[s] IN
        r.transform # "none" =>
            /\ {r.transformLog[k].seq : k \in 1..Len(r.transformLog)}
                   = {i \in 1..Len(r.recv["backend"]) : r.recv["backend"][i].data.kind = "text"}
            /\ Len(r.transformLog) = Cardinality({i \in 1..Len(r.recv["backend"]) :
                                                      r.recv["backend"][i].data.kind = "text"})
            /\ \A j \in 1..Len(r.sent["backend"]) :
                   r.sent["backend"][j].data = r.recv["server"][r.sent["backend"][j].seq].data
            /\ \A j \in 1..Len(r.sent["server"]) :
                   LET in == r.recv["backend"][r.sent["server"][j].seq].data IN
                   r.sent["server"][j].data =
                       IF in.kind = "text" THEN ApplyTransform(r.transform, in, r.host).data
                       ELSE in

\* C7 witness: a rewritten text frame and an untouched binary frame both reached
\* the client
C7_Witness ==
    \E s \in SessionIds :
        LET r == sess[s] IN
        /\ r.transform # "none"
        /\ \E j \in 1..Len(r.sent["server"]) :
               /\ r.sent["server"][j].data.kind = "text"
               /\ r.sent["server"][j].data # r.recv["backend"][r.sent["server"][j].seq].data
        /\ \E j \in 1..Len(r.sent["server"]) : r.sent["server"][j].data.kind = "binary"

Raised(r, x) ==
    Len(r.closeEvents[x]) + r.errorEvents[x]
    + Cardinality({i \in 1..Len(r.inq[x]) : r.inq[x][i].type \in {"close", "error"}})

\* C9: once a close or error event has been raised on a socket of an established
\* session, the relay eventually has called close on the other socket; a socket
\* receives at most one close call per event of its peer (at most two), and a
\* session makes one upgrade request, never a second one.
C9_BoundedClosePropagation ==
    /\ [](\A s \in SessionIds :
             /\ sess[s].fetches <= 1
             /\ \A x \in Side :
                    Len(sess[s].closeCalls[Peer(x)])
                        <= Len(sess[s].closeEvents[x]) + sess[s].errorEvents[x])
    /\ \A s \in SessionIds : \A x \in Side :
           (Raised(sess[s], x) > 0) ~> (sess[s].closeCalls[Peer(x)] # <<>>)

\* C9 witness: both sockets raised an error and then a close, and every one of the
\* four events has been handled
C9_Witness ==
    \E s \in SessionIds :
        /\ \A x \in Side : Len(sess[s].closeCalls[x]) = 2 /\ sess[s].inq[x] = <<>>
        /\ sess[s].fetches = 1

(***************************************************************************)
(* Claims about the request pipeline                                       *)
(***************************************************************************)
IsProxy(c) == c.op \in {"proxyHttp", "proxyWs"}

\* C1: a relay (HTTP or WebSocket) is invoked for a request only directly after that
\* request's health probe has returned ready; when the probe has returned unhealthy,
\* or has not returned yet, no relay has been invoked for the request.
C1_ProbeGatesForwarding ==
    /\ \A i \in 1..Len(calls) :
           IsProxy(calls[i]) =>
               /\ i > 1
               /\ calls[i - 1].op = "health"
               /\ calls[i - 1].res = "ok"
    /\ (\E j \in 1..Len(calls) : calls[j].op = "health" /\ calls[j].res # "ok") =>
           (\A i \in 1..Len(calls) : ~IsProxy(calls[i]))

\* C1 witness: a WebSocket request reached the catch-all, its probe reported
\* unhealthy, and it was answered 503
C1_Witness ==
    /\ rpc = "done"
    /\ req.route = "other" /\ req.ws
    /\ Len(calls) = 1 /\ calls[1].op = "health" /\ calls[1].res = "fail"
    /\ resp.status = 503

\* the required settings that are absent from environment e
MissingNames(e) ==
    {n \in {"SELFHOSTED_URL", "MOLTBOT_GATEWAY_TOKEN", "CF_ACCESS_TEAM_DOMAIN", "CF_ACCESS_AUD"} :
        \/ n = "SELFHOSTED_URL" /\ ~e.url
        \/ n = "MOLTBOT_GATEWAY_TOKEN" /\ ~e.token
        \/ n = "CF_ACCESS_TEAM_DOMAIN" /\ ~e.team
        \/ n = "CF_ACCESS_AUD" /\ ~e.aud}

Listed(r) == {r.missing[i] : i \in 1..Len(r.missing)}

Unset == "<unset>"
Undefined == <<Unset>>
Falsy(s) == s = Undefined \/ s = <<>>

SpecialSchemes == {"https:", "http:", "wss:", "ws:"}
Hosts == {"x.example.com", "ws.example.com", "evil.example", "worker.example"}
Ports == {":443", ":80", ":8443"}
Queries == {"?x=1"}
DefaultPort(scheme) == IF scheme \in {"https:", "wss:"} THEN ":443" ELSE ":80"

RECURSIVE Slashes(_)
Slashes(n) == IF n = 0 THEN <<>> ELSE <<"/">> \o Slashes(n - 1)

\* s.replace(/\/$/, ''): the string without its last character when that is a slash
ReplaceTrailingSlash(s) ==
    IF s = <<>> THEN s
    ELSE IF s[Len(s)] = "/" THEN SubSeq(s, 1, Len(s) - 1)
    ELSE IF s[Len(s)] = "//" THEN SubSeq(s, 1, Len(s) - 1) \o <<"/">>
    ELSE s

Invalid == [valid |-> FALSE]

\* new URL(s) for an absolute URL string: scheme, host, port (null when it is the
\* scheme's default), pathname ("/" when the string has none) and search
ParseURL(s) ==
    IF Len(s) >= 3 /\ s[1] \in SpecialSchemes /\ s[2] = "//" /\ s[3] \in Hosts
    THEN LET hasPort == Len(s) >= 4 /\ s[4] \in Ports
             rest == SubSeq(s, IF hasPort THEN 5 ELSE 4, Len(s))
             hasQuery == rest # <<>> /\ rest[Len(rest)] \in Queries
             path == IF hasQuery THEN SubSeq(rest, 1, Len(rest) - 1) ELSE rest
         IN IF path # <<>> /\ path[1] # "/"
            THEN Invalid
            ELSE [valid |-> TRUE,
                  protocol |-> s[1],
                  hostname |-> s[3],
                  port |-> IF hasPort /\ s[4] # DefaultPort(s[1]) THEN s[4] ELSE "",
                  pathname |-> IF path = <<>> THEN <<"/">> ELSE path,
                  search |-> IF hasQuery THEN rest[Len(rest)] ELSE ""]
    ELSE Invalid

\* url.protocol = p, between special schemes: the port is dropped when it is the
\* new scheme's default
SetProtocol(u, p) ==
    [u EXCEPT !.protocol = p, !.port = IF u.port = DefaultPort(p) THEN "" ELSE u.port]

\* url.toString()
Href(u) ==
    <<u.protocol, "//", u.hostname>>
        \o (IF u.port = "" THEN <<>> ELSE <<u.port>>)
        \o u.pathname
        \o (IF u.search = "" THEN <<>> ELSE <<u.search>>)

\* the port a parsed URL connects to
EffectivePort(u) == IF u.port = "" THEN DefaultPort(u.protocol) ELSE u.port

(***************************************************************************)
(* Config resolver on URL strings                                          *)
(***************************************************************************)
BasePaths ==
    {pre \o Slashes(n) : pre \in {<<>>, <<"/", "api">>}, n \in 0..MaxTrailingSlashes}

\* values of SELFHOSTED_URL: unset, empty, not a URL, and http(s) URLs
SelfHostedUrls ==
    {Undefined, <<>>, <<"x.example.com">>, <<"x.example.com", "/">>}
        \cup {<<sc, "//", "x.example.com">> \o port \o path :
                sc \in {"https:", "http:"},
                port \in {<<>>, <<":443">>, <<":8443">>},
                path \in BasePaths}

WsOverrides == {Undefined, <<>>, <<"wss:", "//", "ws.example.com", "/", "socket">>}

ConfigEnvs ==
    [DEPLOYMENT_MODE : {Unset, "sandbox", "selfhosted"},
     SELFHOSTED_URL : SelfHostedUrls,
     SELFHOSTED_WS_URL : WsOverrides,
     SELFHOSTED_AUTH_TOKEN : {Unset, "s3cret"}]

NullConfig == [kind |-> "null"]
Thrown(e) == [kind |-> "throw", error |-> e]
Config(base, ws, token) ==
    [kind |-> "config", baseUrl |-> base, wsUrl |-> ws, authToken |-> token]

\* the WebSocket URL derived from baseUrl, or the exception new URL raises
DeriveWsUrl(baseUrl) ==
    LET url == ParseURL(baseUrl)
    IN IF ~url.valid
       THEN Thrown("TypeError")
       ELSE [kind |-> "value",
             value |-> ReplaceTrailingSlash(
                 Href(SetProtocol(url, IF url.protocol = "https:" THEN "wss:" ELSE "ws:")))]

BuildSelfHostedConfigOf(e) ==
    IF e.DEPLOYMENT_MODE # "selfhosted" \/ Falsy(e.SELFHOSTED_URL)
    THEN NullConfig
    ELSE LET baseUrl == ReplaceTrailingSlash(e.SELFHOSTED_URL)
         IN IF ~Falsy(e.SELFHOSTED_WS_URL)
            THEN Config(baseUrl, e.SELFHOSTED_WS_URL, e.SELFHOSTED_AUTH_TOKEN)
            ELSE LET ws == DeriveWsUrl(baseUrl)
                 IN IF ws.kind = "throw"
                    THEN ws
                    ELSE Config(baseUrl, ws.value, e.SELFHOSTED_AUTH_TOKEN)

ConfigInit ==
    /\ sess = [s \in SessionIds |-> NewSession("hint")]
    /\ env = [mode |-> TRUE, url |-> TRUE, token |-> TRUE, team |-> TRUE, aud |-> TRUE,
              dev |-> FALSE, debugRoutes |-> FALSE, auth |-> TRUE]
    /\ health = TRUE /\ req = NoRequest /\ rpc = "idle" /\ calls = <<>>
    /\ resp = NoResp /\ served = 0 /\ prev = NoPrev
    /\ \E e \in ConfigEnvs :
         gw = [fn |-> "buildSelfHostedConfig", pc |-> "called", env |-> e, out |-> NullConfig]

\* one call of buildSelfHostedConfig on the environment
ResolveConfig ==
    /\ gw.fn = "buildSelfHostedConfig"
    /\ gw.pc = "called"
    /\ gw' = [gw EXCEPT !.pc = "done", !.out = BuildSelfHostedConfigOf(gw.env)]
    /\ UNCHANGED <<relayVars, routeVars>>

ConfigNext == ResolveConfig

ConfigSpec == ConfigInit /\ [][ConfigNext]_vars

(***************************************************************************)
(* Claims about the config resolver                                        *)
(***************************************************************************)
Resolved == gw.fn = "buildSelfHostedConfig" /\ gw.pc = "done"

\* C11 (as claimed): buildSelfHostedConfig returns null exactly when DEPLOYMENT_MODE
\* is not 'selfhosted' or SELFHOSTED_URL is unset or empty, and in every other case
\* it returns a BackendConfig.
C11_NullIffNotConfigured ==
    Resolved =>
        LET e == gw.env
            off == e.DEPLOYMENT_MODE # "selfhosted"
                     \/ e.SELFHOSTED_URL = Undefined \/ e.SELFHOSTED_URL = <<>>
        IN /\ (gw.out.kind = "null") <=> off
           /\ ~off => gw.out.kind = "config"

EndsWithSlash(s) == s # <<>> /\ s[Len(s)] \in {"/", "//"}

\* C12 (as claimed): for a returned config without a SELFHOSTED_WS_URL override, wsUrl
\* has scheme wss exactly when baseUrl has scheme https and scheme ws otherwise, and
\* wsUrl has the host, port and path of baseUrl; with an override wsUrl is the override.
C12_WsUrlFollowsBaseUrl ==
    (Resolved /\ gw.out.kind = "config") =>
        IF Falsy(gw.env.SELFHOSTED_WS_URL)
        THEN LET b == ParseURL(gw.out.baseUrl)
                 w == ParseURL(gw.out.wsUrl)
             IN /\ b.valid /\ w.valid
                /\ w.protocol = (IF b.protocol = "https:" THEN "wss:" ELSE "ws:")
                /\ w.hostname = b.hostname
                /\ EffectivePort(w) = EffectivePort(b)
                /\ w.pathname = b.pathname
        ELSE gw.out.wsUrl = gw.env.SELFHOSTED_WS_URL

\* C13 (as claimed): the baseUrl of a returned config never ends with a slash, whatever
\* number of slashes SELFHOSTED_URL ends with; 'https://x.example.com/' without an
\* override gives baseUrl 'https://x.example.com' and wsUrl 'wss://x.example.com'.
C13_BaseUrlHasNoTrailingSlash ==
    (Resolved /\ gw.out.kind = "config") =>
        /\ ~EndsWithSlash(gw.out.baseUrl)
        /\ (gw.env.SELFHOSTED_URL = <<"https:", "//", "x.example.com", "/">>
              /\ Falsy(gw.env.SELFHOSTED_WS_URL))
             => /\ gw.out.baseUrl = <<"https:", "//", "x.example.com">>
                /\ gw.out.wsUrl = <<"wss:", "//", "x.example.com">>

(***************************************************************************)
(* Health prober and remote exec bridge                                    *)
(* One call is followed from its fetch to its return or exception.  The    *)
(* platform side (backend answers, network errors, the abort signal's      *)
(* timer, passing time) is in the actions; what the function does with     *)
(* each outcome is in the operators.                                       *)
(***************************************************************************)
\* AbortSignal.timeout(5000) of the health probe
HealthTimeoutMs == 5000
\* what the exec bridge adds to timeoutMs for its abort signal
ExecGraceMs == 5000
\* timeoutMs when the caller gives none; the admin routes' CLI_TIMEOUT_MS
DefaultExecTimeoutMs == 20000
\* timeoutMs of the storage sync call
SyncTimeoutMs == 5000
ExecTimeouts == {SyncTimeoutMs, DefaultExecTimeoutMs}
\* time passes in steps of this many milliseconds
TickMs == HealthTimeoutMs

BackendConfigs ==
    {Config(b, <<"wss:", "//", "x.example.com">>, t) :
        b \in {<<"https:", "//", "x.example.com">>},
        t \in {Unset, "", "s3cret"}}

\* headers.set('X-Internal-Auth', token) when a token is configured
BuildAuthHeaders(config) ==
    IF config.authToken \in {Unset, ""}
    THEN [n \in {} |-> ""]
    ELSE [n \in {"x-internal-auth"} |-> config.authToken]

HealthStatuses == {200, 204, 302, 404, 503}
Redirects == {301, 302, 307}
Ok(status) == status >= 200 /\ status <= 299

\* the request of checkSelfHostedHealth and its abort deadline
HealthRequest(config) ==
    [url |-> config.baseUrl \o <<"/", "health">>,
     method |-> "GET",
     headers |-> BuildAuthHeaders(config),
     body |-> "",
     redirect |-> "follow",
     signal |-> HealthTimeoutMs]

\* checkSelfHostedHealth once its fetch has settled: outcome is a response with a
\* status, a network error or the abort
HealthSettleOkAlways(c, outcome) ==
    [c EXCEPT !.pc = "done", !.out = [kind |-> "return", value |-> outcome.kind = "response"]]
HealthSettle(c, outcome) ==
    [c EXCEPT !.pc = "done",
              !.out = [kind |-> "return",
                       value |-> IF outcome.kind = "response" THEN Ok(outcome.status) ELSE FALSE]]

ExecCommands == {"openclaw devices list --json"}
\* response bodies of /api/internal/exec and what response.json() makes of them
ExecBodies == {"{\"stdout\":\"hi\\n\",\"stderr\":\"\",\"exitCode\":0}",
               "{\"stdout\":\"\",\"stderr\":\"denied\",\"exitCode\":1}",
               "upstream unavailable"}
JsonParses(text) == text # "upstream unavailable"
JsonParse(text) ==
    IF text = "{\"stdout\":\"hi\\n\",\"stderr\":\"\",\"exitCode\":0}"
    THEN [stdout |-> "hi\n", stderr |-> "", exitCode |-> 0]
    ELSE [stdout |-> "", stderr |-> "denied", exitCode |-> 1]
ExecStatuses == {200, 302, 401, 500}

\* the signal of the exec request: AbortSignal.timeout(timeoutMs + 5000)
ExecSignalNoGrace(timeoutMs) == timeoutMs
ExecSignal(timeoutMs) == timeoutMs + ExecGraceMs

\* the request of executeSelfHostedCommand
ExecRequest(config, command, timeoutMs) ==
    [url |-> config.baseUrl \o <<"/", "api", "/", "internal", "/", "exec">>,
     method |-> "POST",
     headers |-> [n \in {"content-type"} |-> "application/json"] @@ BuildAuthHeaders(config),
     body |-> [command |-> command, timeout |-> timeoutMs],
     redirect |-> "follow",
     signal |-> ExecSignal(timeoutMs)]

\* the catch block of executeSelfHostedCommand: log and rethrow
ExecCatchRetry(c, err) ==
    IF Len(c.requests) < 2
    THEN [c EXCEPT !.pc = "fetching", !.clock = 0, !.status = 0,
                   !.requests = Append(@, ExecRequest(c.config, c.command, c.timeoutMs))]
    ELSE [c EXCEPT !.pc = "done", !.out = Thrown(err)]
ExecCatch(c, err) ==
    [c EXCEPT !.pc = "done", !.out = Thrown(err)]

\* mutant of ExecSettle: the body is parsed and returned whatever the status
ExecSettleNoStatusCheck(c, outcome) ==
    CASE outcome.kind = "response" ->
            [c EXCEPT !.pc = "reading", !.status = outcome.status]
      [] outcome.kind = "body" ->
            IF JsonParses(outcome.text)
            THEN [c EXCEPT !.pc = "done",
                           !.out = [kind |-> "return", value |-> JsonParse(outcome.text)]]
            ELSE ExecCatch(c, [name |-> "SyntaxError"])
      [] outcome.kind = "neterr" -> ExecCatch(c, [name |-> "TypeError"])
      [] outcome.kind = "abort" -> ExecCatch(c, [name |-> "TimeoutError"])

\* executeSelfHostedCommand once the fetch, or the reading of the body, has settled
ExecSettle(c, outcome) ==
    CASE outcome.kind = "response" ->
            [c EXCEPT !.pc = "reading", !.status = outcome.status]
      [] outcome.kind = "body" ->
            IF ~Ok(c.status)
            THEN ExecCatch(c, [name |-> "Error", prefix |-> "Command execution failed:",
                               status |-> c.status, text |-> outcome.text])
            ELSE IF JsonParses(outcome.text)
            THEN [c EXCEPT !.pc = "done",
                           !.out = [kind |-> "return", value |-> JsonParse(outcome.text)]]
            ELSE ExecCatch(c, [name |-> "SyntaxError"])
      [] outcome.kind = "neterr" -> ExecCatch(c, [name |-> "TypeError"])
      [] outcome.kind = "abort" -> ExecCatch(c, [name |-> "TimeoutError"])

NoOut == [kind |-> "none"]

TimedCall(fn, config, command, timeoutMs) ==
    [fn |-> fn, pc |-> "called", config |-> config, command |-> command,
     timeoutMs |-> timeoutMs, clock |-> 0, requests |-> <<>>, hops |-> 0,
     status |-> 0, log |-> <<>>, out |-> NoOut]

TimedInit ==
    /\ sess = [s \in SessionIds |-> NewSession("hint")]
    /\ env = [mode |-> TRUE, url |-> TRUE, token |-> TRUE, team |-> TRUE, aud |-> TRUE,
              dev |-> FALSE, debugRoutes |-> FALSE, auth |-> TRUE]
    /\ health = TRUE /\ req = NoRequest /\ rpc = "idle" /\ calls = <<>>
    /\ resp = NoResp /\ served = 0 /\ prev = NoPrev
    /\ \E config \in BackendConfigs :
         \/ gw = TimedCall("checkSelfHostedHealth", config, "", 0)
         \/ \E command \in ExecCommands, t \in ExecTimeouts :
              gw = TimedCall("executeSelfHostedCommand", config, command, t)

Timed == gw.fn \in {"checkSelfHostedHealth", "executeSelfHostedCommand"}
InFlight == Timed /\ gw.pc \in {"fetching", "reading"}
Signal == gw.requests[Len(gw.requests)].signal

\* the function takes the platform's outcome; the platform logs it with its time
PlatformSettles(outcome) ==
    LET logged == [gw EXCEPT !.log = Append(@, outcome @@ [at |-> gw.clock])]
    IN gw' = IF gw.fn = "checkSelfHostedHealth"
             THEN HealthSettle(logged, outcome)
             ELSE ExecSettle(logged, outcome)

\* the function issues its fetch
TimedFetch ==
    /\ Timed /\ gw.pc = "called"
    /\ gw' = [gw EXCEPT !.pc = "fetching",
                        !.requests = Append(@,
                            IF gw.fn = "checkSelfHostedHealth"
                            THEN HealthRequest(gw.config)
                            ELSE ExecRequest(gw.config, gw.command, gw.timeoutMs))]
    /\ UNCHANGED <<relayVars, routeVars>>

\* time passes while the call is pending, up to the moment the signal's timer is due
Tick ==
    /\ InFlight
    /\ gw.clock < Signal
    /\ gw' = [gw EXCEPT !.clock = IF @ + TickMs > Signal THEN Signal ELSE @ + TickMs]
    /\ UNCHANGED <<relayVars, routeVars>>

\* the response the fetch resolves with (status line and headers) arrives; a 3xx one
\* is a redirect the fetch does not follow
BackendResponds ==
    /\ Timed /\ gw.pc = "fetching"
    /\ \E st \in (IF gw.fn = "checkSelfHostedHealth" THEN HealthStatuses ELSE ExecStatuses) :
         PlatformSettles([kind |-> "response", status |-> st])
    /\ UNCHANGED <<relayVars, routeVars>>

\* the backend answers with a redirect and the fetch, whose redirect mode is the
\* default 'follow', goes after it without settling
FetchFollowsRedirect ==
    /\ Timed /\ gw.pc = "fetching"
    /\ gw.requests[Len(gw.requests)].redirect = "follow"
    /\ gw.hops < MaxHops
    /\ \E st \in Redirects :
         gw' = [gw EXCEPT !.hops = @ + 1,
                          !.log = Append(@, [kind |-> "redirect", status |-> st, at |-> gw.clock])]
    /\ UNCHANGED <<relayVars, routeVars>>

\* the response's body has been read (response.text() / response.json())
BodyRead ==
    /\ Timed /\ gw.pc = "reading"
    /\ \E text \in ExecBodies : PlatformSettles([kind |-> "body", text |-> text])
    /\ UNCHANGED <<relayVars, routeVars>>

\* the connection fails
NetworkError ==
    /\ InFlight
    /\ PlatformSettles([kind |-> "neterr"])
    /\ UNCHANGED <<relayVars, routeVars>>

\* the signal's timer is due: the pending fetch or body read is aborted
Abort ==
    /\ InFlight
    /\ gw.clock >= Signal
    /\ PlatformSettles([kind |-> "abort"])
    /\ UNCHANGED <<relayVars, routeVars>>

TimedNext ==
    \/ TimedFetch
    \/ Tick
    \/ BackendResponds
    \/ FetchFollowsRedirect
    \/ BodyRead
    \/ NetworkError
    \/ Abort

TimedSpec == TimedInit /\ [][TimedNext]_vars

\* the function runs, time passes and a due timer fires; the backend owes nothing
TimedFairSpec ==
    /\ TimedInit
    /\ [][TimedNext]_vars
    /\ WF_vars(TimedFetch)
    /\ WF_vars(Tick)
    /\ WF_vars(Abort)

(***************************************************************************)
(* Claims about the health prober and the exec bridge                      *)
(***************************************************************************)
HealthCall == gw.fn = "checkSelfHostedHealth"
ExecCall == gw.fn = "executeSelfHostedCommand"
LastOutcome == gw.log[Len(gw.log)]

\* C14: every call of checkSelfHostedHealth ends, and ends by returning a boolean,
\* never by raising.  It returns true exactly when its fetch of /health resolved
\* with a status in 200..299, which can only be before the abort at 5000 ms; a
\* non-2xx answer, a network error and the abort (never earlier than 5000 ms) all
\* give false.
C14_HealthProbeIsTotal ==
    /\ [](HealthCall /\ gw.pc = "done" =>
            /\ gw.out.kind = "return"
            /\ gw.out.value \in BOOLEAN
            /\ gw.out.value <=> /\ LastOutcome.kind = "response"
                                /\ LastOutcome.status \in 200..299
                                /\ LastOutcome.at <= 5000
            /\ LastOutcome.kind = "abort" => LastOutcome.at >= 5000
            /\ LastOutcome.kind \in {"neterr", "abort"} => gw.out.value = FALSE)
    /\ (HealthCall /\ gw.pc # "done") ~> (HealthCall /\ gw.pc = "done")

\* C14 witness: a probe was aborted at its deadline and returned false
C14_Witness ==
    /\ HealthCall /\ gw.pc = "done"
    /\ LastOutcome.kind = "abort" /\ LastOutcome.at = 5000
    /\ gw.out = [kind |-> "return", value |-> FALSE]

\* C19: every call of executeSelfHostedCommand ends.  A call still pending
\* timeoutMs + 5000 ms after its fetch is aborted then and ends by raising; no call
\* is aborted earlier than that.
C19_ExecAlwaysTerminates ==
    /\ [](ExecCall =>
            \A i \in 1..Len(gw.log) :
                gw.log[i].kind = "abort" =>
                    /\ gw.log[i].at = gw.timeoutMs + 5000
                    /\ gw.pc = "done"
                    /\ gw.out.kind = "throw")
    /\ [](ExecCall /\ gw.pc \in {"fetching", "reading"} => gw.clock <= gw.timeoutMs + 5000)
    /\ (ExecCall /\ gw.pc # "done") ~> (ExecCall /\ gw.pc = "done")

\* C19 witness: a call with the default timeout of 20000 ms got its response headers
\* but not the body, was aborted at 25000 ms and raised
C19_Witness ==
    /\ ExecCall /\ gw.pc = "done"
    /\ gw.timeoutMs = 20000
    /\ Len(gw.log) = 2
    /\ gw.log[1].kind = "response" /\ gw.log[1].status = 200
    /\ gw.log[2].kind = "abort" /\ gw.log[2].at = 25000
    /\ gw.out = Thrown([name |-> "TimeoutError"])

\* C20: a call of executeSelfHostedCommand issues exactly one request (one fetch):
\* never more than one at any moment, and one when it has ended, whether it
\* returned or raised.
C20_ExecSingleRequest ==
    ExecCall =>
        /\ Len(gw.requests) <= 1
        /\ gw.pc # "called" => Len(gw.requests) = 1

\* C20 witness: a call was answered 500, raised, and had made one request
C20_Witness ==
    /\ ExecCall /\ gw.pc = "done"
    /\ gw.status = 500
    /\ gw.out.kind = "throw"
    /\ Len(gw.requests) = 1

(***************************************************************************)
(* HTTP relay                                                              *)
(***************************************************************************)
\* new URL(ref, base) for a reference that is a pathname followed by a search: a
\* reference starting with two slashes names its own host, any other replaces the
\* path and query of the base
ResolveURL(ref, base) ==
    LET b == ParseURL(base)
        hasQuery == ref # <<>> /\ ref[Len(ref)] \in Queries
        path == IF hasQuery THEN SubSeq(ref, 1, Len(ref) - 1) ELSE ref
        search == IF hasQuery THEN ref[Len(ref)] ELSE ""
    IN IF ~b.valid THEN Invalid
       ELSE IF Len(path) >= 2 /\ path[1] = "/" /\ path[2] = "/"
       THEN IF Len(path) >= 3 /\ path[3] # "/"
            THEN [valid |-> TRUE, protocol |-> b.protocol, hostname |-> path[3], port |-> "",
                  pathname |-> IF Len(path) = 3 THEN <<"/">> ELSE SubSeq(path, 4, Len(path)),
                  search |-> search]
            ELSE Invalid
       ELSE [b EXCEPT !.pathname = path, !.search = search]

HttpConfigs ==
    {Config(<<"https:", "//", "x.example.com">> \o port \o prefix,
            <<"wss:", "//", "x.example.com">> \o port \o prefix, t) :
        port \in {<<>>, <<":8443">>},
        prefix \in {<<>>, <<"/", "api">>},
        t \in {Unset, "s3cret"}}

\* header sets of inbound requests, names in lower case
InboundHeaders ==
    {[n \in {"host"} \cup opt |->
        CASE n = "host" -> "worker.example"
          [] n = "cookie" -> "sid=1; theme=dark"
          [] n = "x-internal-auth" -> "forged"
          [] n = "accept" -> "text/html"] :
     opt \in SUBSET {"cookie", "x-internal-auth", "accept"}}

InboundPaths == {<<"/">>, <<"/", "foo">>, <<"/", "/", "evil.example", "/", "x">>}

InboundRequests ==
    {[method |-> mb[1],
      url |-> <<"https:", "//", "worker.example">> \o path \o q,
      headers |-> h,
      body |-> mb[2]] :
     mb \in {<<"GET", "">>, <<"POST", "{\"a\":1}">>},
     path \in InboundPaths,
     q \in {<<>>, <<"?x=1">>},
     h \in InboundHeaders}

\* the headers of the upstream request
ProxyHeadersKeepHost(config, h) ==
    IF config.authToken \in {Unset, ""}
    THEN h
    ELSE [n \in DOMAIN h \cup {"x-internal-auth"} |->
            IF n = "x-internal-auth" THEN config.authToken ELSE h[n]]
ProxyHeaders(config, h) ==
    LET withAuth == IF config.authToken \in {Unset, ""}
                    THEN h
                    ELSE [n \in DOMAIN h \cup {"x-internal-auth"} |->
                            IF n = "x-internal-auth" THEN config.authToken ELSE h[n]]
        noHost == [n \in DOMAIN withAuth \ {"host"} |-> withAuth[n]]
    IN IF "cookie" \in DOMAIN h /\ h["cookie"] # ""
       THEN [n \in DOMAIN noHost \cup {"cookie"} |->
               IF n = "cookie" THEN h["cookie"] ELSE noHost[n]]
       ELSE noHost

\* the URL the relay fetches
TargetUrl(config, request) ==
    LET url == ParseURL(request.url)
    IN ResolveURL(url.pathname \o (IF url.search = "" THEN <<>> ELSE <<url.search>>),
                  config.baseUrl)

\* the fetch of the relay
ProxyFetchFollowing(config, request) ==
    [url |-> Href(TargetUrl(config, request)),
     method |-> request.method,
     headers |-> ProxyHeaders(config, request.headers),
     body |-> request.body,
     redirect |-> "follow"]
ProxyFetch(config, request) ==
    [url |-> Href(TargetUrl(config, request)),
     method |-> request.method,
     headers |-> ProxyHeaders(config, request.headers),
     body |-> request.body,
     redirect |-> "manual"]

\* what the backend may answer
BackendResponses ==
    {[status |-> st,
      headers |-> IF st = 302 THEN [n \in {"location"} |-> "/login"]
                  ELSE [n \in {"content-type"} |-> "text/html"],
      body |-> IF st = 204 THEN "" ELSE "payload"] :
     st \in {200, 204, 302, 404, 500}}
NetworkErrors == {"Network connection lost.", "connect ECONNREFUSED"}

\* the response the relay returns for a backend response
ProxyResponse(c, res) ==
    [status |-> res.status,
     headers |-> [n \in {"x-worker-debug"} |-> "proxy-to-selfhosted"]
                   @@ [n \in {"x-debug-path"} |-> ParseURL(c.request.url).pathname]
                   @@ res.headers,
     body |-> res.body]

\* the catch block of the relay
ProxyCatchRethrow(c, message) ==
    [c EXCEPT !.pc = "done", !.out = Thrown([name |-> "TypeError", message |-> message])]
ProxyCatch(c, message) ==
    [c EXCEPT !.pc = "done",
              !.out = [kind |-> "return",
                       value |-> [status |-> 502,
                                  headers |-> [n \in {"content-type"} |-> "application/json"],
                                  body |-> [error |-> "Failed to connect to self-hosted server",
                                            details |-> message]]]]

\* proxySelfHostedRequest up to its fetch: an exception of new URL leaves the function
ProxyStart(c) ==
    IF ~TargetUrl(c.config, c.request).valid
    THEN [c EXCEPT !.pc = "done", !.out = Thrown([name |-> "TypeError", message |-> "Invalid URL"])]
    ELSE [c EXCEPT !.pc = "fetching",
                   !.requests = Append(@, ProxyFetch(c.config, c.request))]

\* proxySelfHostedRequest once its fetch has settled
ProxySettle(c, outcome) ==
    IF outcome.kind = "response"
    THEN [c EXCEPT !.pc = "done",
                   !.out = [kind |-> "return", value |-> ProxyResponse(c, outcome.response)]]
    ELSE ProxyCatch(c, outcome.message)

HttpCall(config, request) ==
    [fn |-> "proxySelfHostedRequest", pc |-> "called", config |-> config,
     request |-> request, requests |-> <<>>, hops |-> 0, log |-> <<>>, out |-> NoOut]

HttpInit ==
    /\ sess = [s \in SessionIds |-> NewSession("hint")]
    /\ env = [mode |-> TRUE, url |-> TRUE, token |-> TRUE, team |-> TRUE, aud |-> TRUE,
              dev |-> FALSE, debugRoutes |-> FALSE, auth |-> TRUE]
    /\ health = TRUE /\ req = NoRequest /\ rpc = "idle" /\ calls = <<>>
    /\ resp = NoResp /\ served = 0 /\ prev = NoPrev
    /\ \E config \in HttpConfigs, request \in InboundRequests :
         gw = HttpCall(config, request)

Http == gw.fn = "proxySelfHostedRequest"

\* the relay builds the upstream request and issues its fetch
ProxyRequest ==
    /\ Http /\ gw.pc = "called"
    /\ gw' = ProxyStart(gw)
    /\ UNCHANGED <<relayVars, routeVars>>

\* the backend answers; a fetch in redirect mode 'follow' goes after a redirect
\* itself, any other answer settles the fetch
ProxyBackendResponds ==
    /\ Http /\ gw.pc = "fetching"
    /\ \E res \in BackendResponses :
         LET logged == [gw EXCEPT !.log = Append(@, [kind |-> "response", response |-> res])]
         IN IF res.status = 302 /\ gw.requests[Len(gw.requests)].redirect = "follow"
                /\ gw.hops < MaxHops
            THEN gw' = [logged EXCEPT !.hops = @ + 1]
            ELSE gw' = ProxySettle(logged, [kind |-> "response", response |-> res])
    /\ UNCHANGED <<relayVars, routeVars>>

\* the connection to the backend fails
ProxyNetworkError ==
    /\ Http /\ gw.pc = "fetching"
    /\ \E message \in NetworkErrors :
         gw' = ProxySettle([gw EXCEPT !.log = Append(@, [kind |-> "neterr", message |-> message])],
                           [kind |-> "neterr", message |-> message])
    /\ UNCHANGED <<relayVars, routeVars>>

HttpNext ==
    \/ ProxyRequest
    \/ ProxyBackendResponds
    \/ ProxyNetworkError

HttpSpec == HttpInit /\ [][HttpNext]_vars

(***************************************************************************)
(* Claims about the HTTP relay                                             *)
(***************************************************************************)
HttpLast == gw.log[Len(gw.log)]

\* C15: the relay issues one upstream request per call, with the method and body of
\* the inbound request, and the response it returns has the status the backend
\* answered with; a 3xx answer is returned as that 3xx and no redirect is followed.
C15_RelayIsOneToOne ==
    Http =>
        /\ Len(gw.requests) <= 1
        /\ gw.pc \in {"fetching", "done"} => Len(gw.requests) = 1
        /\ \A i \in 1..Len(gw.requests) :
             /\ gw.requests[i].method = gw.request.method
             /\ gw.requests[i].body = gw.request.body
        /\ gw.hops = 0
        /\ Len(gw.log) <= 1
        /\ (gw.log # <<>> /\ HttpLast.kind = "response") =>
             /\ gw.pc = "done"
             /\ gw.out.kind = "return"
             /\ gw.out.value.status = HttpLast.response.status

\* C15 witness: the backend answered a POST with 302 and the relay returned 302
C15_Witness ==
    /\ Http /\ gw.pc = "done"
    /\ gw.request.method = "POST"
    /\ Len(gw.log) = 1 /\ HttpLast.kind = "response" /\ HttpLast.response.status = 302
    /\ gw.out.kind = "return" /\ gw.out.value.status = 302

\* C16: the headers of the upstream request are the inbound headers without host,
\* with X-Internal-Auth set to the configured token when a token is configured;
\* every other inbound header, Cookie among them, has its inbound value.
C16_UpstreamHeaders ==
    (Http /\ gw.requests # <<>>) =>
        LET up == gw.requests[1].headers
            in == gw.request.headers
            token == gw.config.authToken
            configured == token \notin {Unset, ""}
        IN /\ DOMAIN up = (DOMAIN in \ {"host"})
                            \cup (IF configured THEN {"x-internal-auth"} ELSE {})
           /\ configured => up["x-internal-auth"] = token
           /\ \A n \in DOMAIN in \ {"host"} :
                (n # "x-internal-auth" \/ ~configured) => up[n] = in[n]

\* C16 witness: an inbound request with Cookie and its own X-Internal-Auth went
\* upstream with the cookie and with the configured token
C16_Witness ==
    /\ Http /\ gw.requests # <<>>
    /\ gw.config.authToken = "s3cret"
    /\ {"cookie", "x-internal-auth", "host"} \subseteq DOMAIN gw.request.headers
    /\ gw.requests[1].headers["cookie"] = "sid=1; theme=dark"
    /\ gw.requests[1].headers["x-internal-auth"] = "s3cret"

\* C17 (as claimed): the upstream request's URL is config.baseUrl followed by the
\* inbound path and query, also when baseUrl has a path of its own.
C17_TargetIsBasePlusPath ==
    (Http /\ gw.requests # <<>>) =>
        LET in == ParseURL(gw.request.url)
            claimed == gw.config.baseUrl \o in.pathname
                         \o (IF in.search = "" THEN <<>> ELSE <<in.search>>)
        IN ParseURL(gw.requests[1].url) = ParseURL(claimed)

\* C18: when the relay's fetch fails with a network error, the call returns a
\* response with status 502 and a JSON body holding the error identifier and the
\* error's message; it does not raise.
C18_NetworkErrorGives502 ==
    (Http /\ gw.log # <<>> /\ HttpLast.kind = "neterr") =>
        /\ gw.pc = "done"
        /\ gw.out.kind = "return"
        /\ gw.out.value.status = 502
        /\ gw.out.value.headers["content-type"] = "application/json"
        /\ gw.out.value.body = [error |-> "Failed to connect to self-hosted server",
                                details |-> HttpLast.message]

\* C18 witness: the connection was refused and the relay returned a 502
C18_Witness ==
    /\ Http /\ gw.pc = "done"
    /\ gw.log # <<>> /\ HttpLast = [kind |-> "neterr", message |-> "connect ECONNREFUSED"]
    /\ gw.out.kind = "return" /\ gw.out.value.status = 502


(***************************************************************************)
(* The exec bridge's result                                                *)
(***************************************************************************)
\* the exec call has ended after the body of its last response was read
ExecBodyRead == ExecCall /\ gw.pc = "done" /\ LastOutcome.kind = "body"

\* C21: executeSelfHostedCommand returns the JSON body of a success-status response
\* unchanged ({stdout: "hi\n", stderr: "", exitCode: 0} for that body); for a
\* non-success status whose body it has read it throws an error made of the status
\* and the verbatim body; and it never returns a result when the status is not a
\* success status.
C21_ExecResultOrError ==
    (ExecCall /\ gw.pc = "done") =>
        /\ (gw.out.kind = "return") => (ExecBodyRead /\ Ok(gw.status))
        /\ (ExecBodyRead /\ Ok(gw.status) /\ JsonParses(LastOutcome.text)) =>
               gw.out = [kind |-> "return", value |-> JsonParse(LastOutcome.text)]
        /\ (ExecBodyRead /\ Ok(gw.status)
               /\ LastOutcome.text = "{\"stdout\":\"hi\\n\",\"stderr\":\"\",\"exitCode\":0}") =>
               gw.out.value = [stdout |-> "hi\n", stderr |-> "", exitCode |-> 0]
        /\ (ExecBodyRead /\ ~Ok(gw.status)) =>
               /\ gw.out.kind = "throw"
               /\ gw.out.error.prefix = "Command execution failed:"
               /\ gw.out.error.status = gw.status
               /\ gw.out.error.text = LastOutcome.text

\* a 500 whose body is itself a well-formed result has been turned into an error
C21_Witness ==
    /\ ExecBodyRead
    /\ gw.status = 500
    /\ JsonParses(LastOutcome.text)
    /\ gw.out.kind = "throw"
    /\ gw.out.error.text = LastOutcome.text


(***************************************************************************)
(* The catch-all's table                                                   *)
(***************************************************************************)
\* the request is in the catch-all, which has a configuration and the result of
\* its health probe
CatchAllGated ==
    /\ rpc \in {"proxying", "done"}
    /\ req.stages # <<>> /\ req.stages[Len(req.stages)] = "catchall"
    /\ BuildSelfHostedConfig(env) # Null
    /\ calls # <<>> /\ calls[1].op = "health"

LoadingPage == resp.status = 200 /\ resp.kind = "html" /\ resp.body = "loading"
Unavailable503 ==
    /\ resp.status = 503 /\ resp.kind = "json"
    /\ resp.body = "Self-hosted Moltbot gateway is not responding"

\* the Upgrade header is 'websocket' in any letter case
UpgradeIsWebSocket == req.upgrade \in {"websocket", "WebSocket"}
AcceptIncludesHtml == req.accept = "text/html,application/xhtml+xml"

\* C22 (as claimed): on the catch-all with a non-null config, an unhealthy backend
\* and an Accept header that includes text/html give the loading page, an unhealthy
\* backend otherwise the JSON 503; a healthy backend gives the WebSocket relay when
\* Upgrade is 'websocket' in any case and the HTTP relay otherwise.
C22_AsClaimed ==
    CatchAllGated =>
        /\ (calls[1].res = "fail" /\ AcceptIncludesHtml) =>
               (rpc = "done" /\ LoadingPage /\ Len(calls) = 1)
        /\ (calls[1].res = "fail" /\ ~AcceptIncludesHtml) =>
               (rpc = "done" /\ Unavailable503 /\ Len(calls) = 1)
        /\ (calls[1].res = "ok" /\ UpgradeIsWebSocket) =>
               (Len(calls) = 2 /\ calls[2].op = "proxyWs")
        /\ (calls[1].res = "ok" /\ ~UpgradeIsWebSocket) =>
               (Len(calls) = 2 /\ calls[2].op = "proxyHttp")

\* C22 (amended): on the catch-all with a non-null config, an unhealthy backend gives
\* the loading page when the Accept header includes text/html and the request is not
\* a WebSocket upgrade, and the JSON {error, hint} 503 otherwise (a WebSocket upgrade
\* that accepts HTML included); a healthy backend gives the WebSocket relay when
\* Upgrade is 'websocket' in any case and the HTTP relay otherwise.
C22_CatchAllTable ==
    CatchAllGated =>
        /\ (calls[1].res = "fail" /\ AcceptIncludesHtml /\ ~UpgradeIsWebSocket) =>
               (rpc = "done" /\ LoadingPage /\ Len(calls) = 1)
        /\ (calls[1].res = "fail" /\ ~(AcceptIncludesHtml /\ ~UpgradeIsWebSocket)) =>
               (rpc = "done" /\ Unavailable503 /\ Len(calls) = 1)
        /\ (calls[1].res = "ok" /\ UpgradeIsWebSocket) =>
               (Len(calls) = 2 /\ calls[2].op = "proxyWs")
        /\ (calls[1].res = "ok" /\ ~UpgradeIsWebSocket) =>
               (Len(calls) = 2 /\ calls[2].op = "proxyHttp")

\* a WebSocket upgrade that accepts HTML met an unhealthy backend and got the 503
C22_Witness ==
    /\ CatchAllGated
    /\ calls[1].res = "fail"
    /\ req.upgrade = "WebSocket" /\ AcceptIncludesHtml
    /\ Unavailable503


(***************************************************************************)
(* The admin routes behind the identity gate                               *)
(***************************************************************************)
\* the request has gone through this stage
Went(stage) == \E i \in 1..Len(req.stages) : req.stages[i] = stage

\* the request went through stage a and later through stage b
WentBefore(a, b) ==
    \E i, j \in 1..Len(req.stages) : i < j /\ req.stages[i] = a /\ req.stages[j] = b

\* C23: a request to an admin-prefixed route has a backend call (probe, exec, sync,
\* restart, status) only when the identity-verification middleware, the global one
\* and adminApi's own, passed it before its handler ran; a request a gate rejected
\* has no backend call.
C23_NoAdminCallWithoutIdentity ==
    req.route = "admin" =>
        /\ calls # <<>> =>
              /\ WentBefore("access:pass", "admin")
              /\ WentBefore("adminAccess:pass", "admin")
        /\ (Went("access:reject") \/ Went("adminAccess:reject")) => calls = <<>>
        /\ \A i \in 1..Len(calls) :
              calls[i].op \in {"health", "exec", "sync", "restart", "status"}

\* GET server/status passed both gates and made its probe and its status fetch
C23_Witness ==
    /\ req.route = "admin" /\ req.admin = "serverStatus"
    /\ rpc = "done"
    /\ WentBefore("adminAccess:pass", "admin")
    /\ Len(calls) = 2 /\ calls[1].op = "health" /\ calls[2].op = "status"


(***************************************************************************)
(* GET /api/status                                                         *)
(***************************************************************************)
ApiStatusAnswered == req.route = "apiStatus" /\ rpc = "done"

\* C24: GET /api/status is answered by its handler before the required-env
\* middleware and the identity gate are reached, and the ok field of its answer is
\* true exactly when the configuration is present and the one health probe made for
\* this request returned true.
C24_StatusIsPublicAndProbed ==
    ApiStatusAnswered =>
        /\ req.stages = <<"log">>
        /\ resp.status = 200 /\ resp.kind = "json"
        /\ OkField(resp.body) <=>
              /\ BuildSelfHostedConfig(env) # Null
              /\ Len(calls) = 1 /\ calls[1].op = "health" /\ calls[1].res = "ok"

\* with the gateway token and the Access settings missing, /api/status says ok
C24_Witness ==
    /\ ApiStatusAnswered
    /\ ~env.token /\ ~env.team /\ ~env.dev
    /\ OkField(resp.body)
    /\ calls[1].res = "ok"


(***************************************************************************)
(* The internal auth header                                                *)
(***************************************************************************)
\* C25: when SELFHOSTED_AUTH_TOKEN is configured, every backend-bound call of a
\* request (probe, HTTP forward, WebSocket upgrade, exec, sync, restart, status, CDP
\* JSON fetch) carries X-Internal-Auth with exactly the configured token.
C25_EveryCallCarriesToken ==
    env.auth => \A i \in 1..Len(calls) : calls[i].auth = AuthToken


(***************************************************************************)
(* No cached health                                                        *)
(***************************************************************************)
\* the request is in the catch-all, past the configuration check
CatchAllEntered ==
    /\ rpc \in {"catchProbe", "proxying", "done"}
    /\ req.stages # <<>> /\ req.stages[Len(req.stages)] = "catchall"
    /\ BuildSelfHostedConfig(env) # Null

\* the catch-all forwards the request to one of the relays
Forwarded == Len(calls) = 2 /\ calls[2].op \in {"proxyHttp", "proxyWs"}

\* C28: every catch-all request with a configuration issues its own health probe
\* first, whatever an earlier request saw, and is forwarded exactly when that probe
\* returned true; otherwise it is answered with the loading page or the 503.
C28_EachRequestProbes ==
    CatchAllEntered =>
        /\ calls # <<>> /\ calls[1].op = "health"
        /\ rpc # "catchProbe" =>
              /\ calls[1].res \in {"ok", "fail"}
              /\ Forwarded <=> calls[1].res = "ok"
              /\ ~Forwarded => (rpc = "done" /\ Len(calls) = 1
                                /\ (LoadingPage \/ Unavailable503))

\* the request before this one found the backend healthy; this one probed again,
\* found it down and was not forwarded
C28_Witness ==
    /\ CatchAllEntered
    /\ prev.probe = "ok"
    /\ rpc = "done"
    /\ calls[1].res = "fail"
    /\ Unavailable503


(***************************************************************************)
(* Backend failures become structured responses                            *)
(***************************************************************************)
\* the request has been answered after a backend call of its handler failed: a
\* network error, a timeout, a non-success status, a body that is not JSON
AnsweredAfterFailure ==
    /\ rpc = "done"
    /\ calls # <<>>
    /\ calls[Len(calls)].res \in {"fail", "neterr", "timeout", "status", "badjson"}

\* C27: whatever route called the backend and however the call failed, the handler
\* returns a response, and that response is structured JSON or HTML.
C27_FailuresAreStructured ==
    AnsweredAfterFailure => (resp.status # 0 /\ resp.kind \in {"json", "html"})


(***************************************************************************)
(* The catch-all's rewrite of gateway error frames                         *)
(***************************************************************************)
MaxHintFrames == 2

\* hosts of the original request (url.host, with the port when it is not the default)
RequestHosts == {"worker.example", "bot.example:8443"}

\* text frames the backend can send
BackendTexts ==
    {"not json",
     "null",
     "\"hello\"",
     "{\"type\":\"event\"}",
     "{ \"type\": \"event\" }",
     "{\"error\":\"boom\"}",
     "{\"error\":{\"code\":1}}",
     "{\"error\":{\"message\":\"\"}}",
     "{\"error\":{\"message\":42}}",
     "{\"error\":{\"message\":\"rate limited\"}}",
     "{\"error\":{\"message\":\"pairing required\"}}",
     "{ \"id\": 1, \"error\": { \"code\": 1, \"message\": \"device pairing required\" } }",
     "{\"error\":{\"message\":\"gateway token missing\"}}",
     "{\"id\":1,\"error\":{\"message\":\"unauthorized: gateway token mismatch\"}}"}

JsUndefined == [t |-> "undefined"]
JsString(v) == [t |-> "string", v |-> v]
JsNumber(v) == [t |-> "number", v |-> v]
JsErrorObject(code, message) == [t |-> "object", code |-> code, message |-> message]
JsObject(id, type, error) == [t |-> "object", id |-> id, type |-> type, error |-> error]

\* JSON.parse: whether it returns, and what
JsonParsesText(text) == text # "not json"
JsonParseText(text) ==
    CASE text = "null" -> [t |-> "null"]
      [] text = "\"hello\"" -> JsString("hello")
      [] text \in {"{\"type\":\"event\"}", "{ \"type\": \"event\" }"} ->
            JsObject(JsUndefined, JsString("event"), JsUndefined)
      [] text = "{\"error\":\"boom\"}" -> JsObject(JsUndefined, JsUndefined, JsString("boom"))
      [] text = "{\"error\":{\"code\":1}}" ->
            JsObject(JsUndefined, JsUndefined, JsErrorObject(JsNumber(1), JsUndefined))
      [] text = "{\"error\":{\"message\":\"\"}}" ->
            JsObject(JsUndefined, JsUndefined, JsErrorObject(JsUndefined, JsString("")))
      [] text = "{\"error\":{\"message\":42}}" ->
            JsObject(JsUndefined, JsUndefined, JsErrorObject(JsUndefined, JsNumber(42)))
      [] text = "{\"error\":{\"message\":\"rate limited\"}}" ->
            JsObject(JsUndefined, JsUndefined,
                     JsErrorObject(JsUndefined, JsString("rate limited")))
      [] text = "{\"error\":{\"message\":\"pairing required\"}}" ->
            JsObject(JsUndefined, JsUndefined,
                     JsErrorObject(JsUndefined, JsString("pairing required")))
      [] text = "{ \"id\": 1, \"error\": { \"code\": 1, \"message\": \"device pairing required\" } }" ->
            JsObject(JsNumber(1), JsUndefined,
                     JsErrorObject(JsNumber(1), JsString("device pairing required")))
      [] text = "{\"error\":{\"message\":\"gateway token missing\"}}" ->
            JsObject(JsUndefined, JsUndefined,
                     JsErrorObject(JsUndefined, JsString("gateway token missing")))
      [] text = "{\"id\":1,\"error\":{\"message\":\"unauthorized: gateway token mismatch\"}}" ->
            JsObject(JsNumber(1), JsUndefined,
                     JsErrorObject(JsUndefined,
                                   JsString("unauthorized: gateway token mismatch")))

\* JSON.stringify of a parsed object whose error.message is a string: members in
\* the order they were parsed, no white space
JsonStringify(v) ==
    "{" \o (IF v.id = JsUndefined THEN "" ELSE "\"id\":1,")
        \o (IF v.type = JsUndefined THEN "" ELSE "\"type\":\"" \o v.type.v \o "\",")
        \o "\"error\":{"
        \o (IF v.error.code = JsUndefined THEN "" ELSE "\"code\":1,")
        \o "\"message\":\"" \o v.error.message.v \o "\"}}"

\* String.prototype.includes
Includes(s, needle) ==
    \E i \in 1..(Len(s) - Len(needle) + 1) : SubSeq(s, i, i + Len(needle) - 1) = needle

\* transformErrorMessage on a string
TransformErrorText(message, host) ==
    IF Includes(message, "gateway token missing") \/ Includes(message, "gateway token mismatch")
    THEN "Invalid or missing token. Visit https://" \o host
             \o "?token={REPLACE_WITH_YOUR_TOKEN}"
    ELSE IF Includes(message, "pairing required")
    THEN "Pairing required. Visit https://" \o host \o "/_admin/"
    ELSE message

\* parsed.error?.message, and its truthiness
ErrorMessageOf(parsed) ==
    IF parsed.t = "object" /\ parsed.error.t = "object" THEN parsed.error.message
    ELSE JsUndefined
Truthy(v) ==
    CASE v.t = "string" -> v.v # ""
      [] v.t = "number" -> v.v # 0
      [] OTHER -> FALSE

\* mutant of CatchAllTransform: the frame is re-serialised whenever it parses to an
\* object with an error object
CatchAllTransformAlwaysStringify(message, host) ==
    IF ~JsonParsesText(message) THEN message
    ELSE LET parsed == JsonParseText(message)
         IN  IF parsed.t = "object" /\ parsed.error.t = "object"
             THEN JsonStringify([parsed EXCEPT !.error.message =
                     IF @.t = "string" THEN JsString(TransformErrorText(@.v, host))
                     ELSE JsString("")])
             ELSE message

\* the transform the catch-all hands to the WebSocket relay: a parse error, the
\* TypeError of reading .error of null and the TypeError of calling includes on a
\* message that is not a string are all caught, and the frame is returned as it came
CatchAllTransform(message, host) ==
    IF ~JsonParsesText(message) THEN message
    ELSE LET parsed == JsonParseText(message)
         IN  IF parsed.t = "null" THEN message
             ELSE IF ~Truthy(ErrorMessageOf(parsed)) THEN message
             ELSE IF ErrorMessageOf(parsed).t # "string" THEN message
             ELSE JsonStringify([parsed EXCEPT !.error.message =
                                    JsString(TransformErrorText(@.v, host))])

\* the backend 'message' listener of a relay session of the catch-all: strings go
\* through the transform, and the result is sent when the client socket is OPEN
BackendListener(c, frame) ==
    LET data == IF frame.kind = "text" THEN CatchAllTransform(frame.data, c.host)
                ELSE frame.data
    IN  [c EXCEPT !.log = Append(@, [frame |-> frame, open |-> c.clientOpen,
                                     sent |-> IF c.clientOpen
                                              THEN <<[kind |-> frame.kind, data |-> data]>>
                                              ELSE <<>>])]

HintInit ==
    /\ sess = [s \in SessionIds |-> NewSession("hint")]
    /\ env = [mode |-> TRUE, url |-> TRUE, token |-> TRUE, team |-> TRUE, aud |-> TRUE,
              dev |-> FALSE, debugRoutes |-> FALSE, auth |-> TRUE]
    /\ health = TRUE /\ req = NoRequest /\ rpc = "idle" /\ calls = <<>>
    /\ resp = NoResp /\ served = 0 /\ prev = NoPrev
    /\ \E h \in RequestHosts :
          gw = [fn |-> "relayMessages", host |-> h, clientOpen |-> TRUE, log |-> <<>>]

Hinting == gw.fn = "relayMessages"

\* the backend sends a text frame
BackendSendsText ==
    /\ Hinting /\ Len(gw.log) < MaxHintFrames
    /\ \E text \in BackendTexts : gw' = BackendListener(gw, [kind |-> "text", data |-> text])
    /\ UNCHANGED <<relayVars, routeVars>>

\* the backend sends a binary frame
BackendSendsBinary ==
    /\ Hinting /\ Len(gw.log) < MaxHintFrames
    /\ gw' = BackendListener(gw, [kind |-> "binary", data |-> "blob"])
    /\ UNCHANGED <<relayVars, routeVars>>

\* the client socket leaves the OPEN state
ClientLeaves ==
    /\ Hinting /\ gw.clientOpen
    /\ gw' = [gw EXCEPT !.clientOpen = FALSE]
    /\ UNCHANGED <<relayVars, routeVars>>

HintNext == BackendSendsText \/ BackendSendsBinary \/ ClientLeaves

HintSpec == HintInit /\ [][HintNext]_vars

\* the frames the backend sent while the client was OPEN
Relayed == {i \in 1..Len(gw.log) : gw.log[i].open /\ gw.log[i].frame.kind = "text"}

\* the text is JSON whose error.message is a string containing one of the three
\* gateway errors
HasGatewayError(text) ==
    /\ JsonParsesText(text)
    /\ ErrorMessageOf(JsonParseText(text)).t = "string"
    /\ \E needle \in {"pairing required", "gateway token missing", "gateway token mismatch"} :
          Includes(ErrorMessageOf(JsonParseText(text)).v, needle)

\* the text is not JSON, or is JSON without an error.message
HasNoErrorMessage(text) ==
    \/ ~JsonParsesText(text)
    \/ ErrorMessageOf(JsonParseText(text)) = JsUndefined

\* the hint for a gateway error, naming the host
HintNaming(message, host) ==
    IF Includes(message, "pairing required") /\ ~Includes(message, "gateway token")
    THEN "Pairing required. Visit https://" \o host \o "/_admin/"
    ELSE "Invalid or missing token. Visit https://" \o host
             \o "?token={REPLACE_WITH_YOUR_TOKEN}"

\* C26: a backend text frame that is JSON with an error.message containing 'pairing
\* required', 'gateway token missing' or 'gateway token mismatch' reaches the open
\* client as the same JSON value with error.message replaced by the hint naming the
\* original request host ({"error":{"message":"pairing required"}} becomes the
\* pairing hint); a text frame that is not JSON, or is JSON without an
\* error.message, reaches it byte for byte as the backend sent it.
C26_HintOrIdentical ==
    Hinting =>
      \A i \in Relayed :
        LET text == gw.log[i].frame.data
            out == gw.log[i].sent
        IN  /\ Len(out) = 1 /\ out[1].kind = "text"
            /\ HasGatewayError(text) =>
                  /\ out[1].data = JsonStringify([JsonParseText(text) EXCEPT
                        !.error.message = JsString(HintNaming(@.v, gw.host))])
                  /\ out[1].data # text
            /\ (text = "{\"error\":{\"message\":\"pairing required\"}}"
                  /\ gw.host = "worker.example") =>
                  out[1].data = "{\"error\":{\"message\":\"Pairing required. Visit https://worker.example/_admin/\"}}"
            /\ HasNoErrorMessage(text) => out[1].data = text

\* the pairing error of scenario E went out as the hint, and a frame of JSON with
\* white space and no error went out untouched
C26_Witness ==
    /\ Hinting
    /\ Len(gw.log) = 2
    /\ gw.log[1].frame.data = "{\"error\":{\"message\":\"pairing required\"}}"
    /\ gw.log[1].sent = <<[kind |-> "text",
          data |-> "{\"error\":{\"message\":\"Pairing required. Visit https://"
                       \o gw.host \o "/_admin/\"}}"]>>
    /\ gw.log[2].frame.data = "{ \"type\": \"event\" }"
    /\ gw.log[2].sent = <<gw.log[2].frame>>


(***************************************************************************)
(* POST /api/admin/devices/approve-all                                     *)
(***************************************************************************)
MaxPending == 2

\* requestIds of pending devices
RequestIds == {"r1", "r2", "r3"}

\* pending lists the device listing can hold: each request once
PendingLists ==
    {p \in UNION {[1..n -> RequestIds] : n \in 0..MaxPending} :
        \A i, j \in 1..Len(p) : i # j => p[i] # p[j]}

\* how the list command can end: the exec bridge throws, or returns a stdout without
\* braces, with braces that do not parse, with JSON without a pending member, or with
\* JSON holding a pending list
ListOutcomes ==
    {[kind |-> k, pending |-> <<>>] : k \in {"throw", "noJson", "badJson", "noPending"}}
        \cup {[kind |-> "json", pending |-> p] : p \in PendingLists}

\* how an approve command can end: the exec bridge throws, or returns a result
ApproveOutcomes ==
    {[kind |-> "throw", stdout |-> "", exitCode |-> 0]}
        \cup {[kind |-> "return", stdout |-> o, exitCode |-> e] :
                 o \in {"Approved r1", "", "request not approved"}, e \in {0, 1}}

\* approveResult.stdout?.toLowerCase().includes('approved') || exitCode === 0
ApproveSuccess(out) == Includes(ToLowerCase(out.stdout), "approved") \/ out.exitCode = 0

ApproveCommand(id) == [cmd |-> "devices approve", requestId |-> id]
ListCommand == [cmd |-> "devices list", requestId |-> ""]

NoApproveResponse ==
    [status |-> 0, kind |-> "none", approved |-> <<>>, hasFailed |-> FALSE,
     failed |-> <<>>, count |-> 0, total |-> 0]
ApproveError(status, kind) == [NoApproveResponse EXCEPT !.status = status, !.kind = kind]

\* results.filter(r => r.success).map(r => r.requestId) and results.filter(r => !r.success)
RECURSIVE FilterResults(_, _)
FilterResults(results, success) ==
    IF results = <<>> THEN <<>>
    ELSE (IF results[1].success = success THEN <<results[1]>> ELSE <<>>)
             \o FilterResults(Tail(results), success)
RequestIdsOf(results) == [i \in 1..Len(results) |-> results[i].requestId]

\* the response after the loop
ApproveAllResponse(c) ==
    [status |-> 200, kind |-> "approved",
     approved |-> RequestIdsOf(FilterResults(c.results, TRUE)),
     hasFailed |-> TRUE,
     failed |-> FilterResults(c.results, FALSE),
     count |-> Len(FilterResults(c.results, TRUE)),
     total |-> Len(c.pending)]

\* the handler issues a command through the exec bridge and awaits it
Issue(c, command) == [c EXCEPT !.pc = "awaiting", !.commands = Append(@, command)]

\* the handler from the return of the list command to its next await or its response
AfterList(c, out) ==
    CASE out.kind = "throw" -> [c EXCEPT !.pc = "done", !.response = ApproveError(500, "error")]
      [] out.kind = "badJson" ->
            [c EXCEPT !.pc = "done", !.response = ApproveError(500, "Failed to parse device list")]
      [] OTHER ->
            IF Len(out.pending) = 0
            THEN [c EXCEPT !.pc = "done", !.listed = TRUE,
                           !.response = [NoApproveResponse EXCEPT !.status = 200,
                                            !.kind = "No pending devices to approve"]]
            ELSE Issue([c EXCEPT !.listed = TRUE, !.pending = out.pending],
                       ApproveCommand(out.pending[1]))

\* mutant of AfterApprove: a throwing approve command ends the loop
AfterApproveStopOnThrow(c, out) ==
    IF out.kind = "throw"
    THEN [c EXCEPT !.pc = "done", !.response = ApproveError(500, "error")]
    ELSE LET done == [c EXCEPT !.results = Append(@,
                         [requestId |-> c.pending[Len(c.results) + 1],
                          success |-> ApproveSuccess(out), error |-> FALSE])]
         IN  IF Len(done.results) < Len(c.pending)
             THEN Issue(done, ApproveCommand(c.pending[Len(done.results) + 1]))
             ELSE [done EXCEPT !.pc = "done", !.response = ApproveAllResponse(done)]

\* the handler from the return of an approve command to its next await or its response
AfterApprove(c, out) ==
    LET done == [c EXCEPT !.results = Append(@,
                     [requestId |-> c.pending[Len(c.results) + 1],
                      success |-> IF out.kind = "throw" THEN FALSE ELSE ApproveSuccess(out),
                      error |-> out.kind = "throw"])]
    IN  IF Len(done.results) < Len(c.pending)
        THEN Issue(done, ApproveCommand(c.pending[Len(done.results) + 1]))
        ELSE [done EXCEPT !.pc = "done", !.response = ApproveAllResponse(done)]

ApproveInit ==
    /\ sess = [s \in SessionIds |-> NewSession("hint")]
    /\ env = [mode |-> TRUE, url |-> TRUE, token |-> TRUE, team |-> TRUE, aud |-> TRUE,
              dev |-> FALSE, debugRoutes |-> FALSE, auth |-> TRUE]
    /\ health = TRUE /\ req = NoRequest /\ rpc = "idle" /\ calls = <<>>
    /\ resp = NoResp /\ served = 0 /\ prev = NoPrev
    /\ gw = [fn |-> "approveAll", pc |-> "called", listed |-> FALSE, pending |-> <<>>,
             commands |-> <<>>, results |-> <<>>, outcomes |-> <<>>,
             response |-> NoApproveResponse]

Approving == gw.fn = "approveAll"

\* the handler starts: the list command
ApproveAllStart ==
    /\ Approving /\ gw.pc = "called"
    /\ gw' = Issue(gw, ListCommand)
    /\ UNCHANGED <<relayVars, routeVars>>

\* the list command settles
ListSettles ==
    /\ Approving /\ gw.pc = "awaiting" /\ Len(gw.commands) = 1
    /\ \E out \in ListOutcomes : gw' = AfterList(gw, out)
    /\ UNCHANGED <<relayVars, routeVars>>

\* the approve command in flight settles
ApproveSettles ==
    /\ Approving /\ gw.pc = "awaiting" /\ Len(gw.commands) > 1
    /\ \E out \in ApproveOutcomes :
          gw' = AfterApprove([gw EXCEPT !.outcomes = Append(@, out)], out)
    /\ UNCHANGED <<relayVars, routeVars>>

ApproveNext == ApproveAllStart \/ ListSettles \/ ApproveSettles

ApproveSpec == ApproveInit /\ [][ApproveNext]_vars

\* the handler has answered after a device listing that parsed
AnsweredListing == Approving /\ gw.pc = "done" /\ gw.listed

Range(f) == {f[i] : i \in DOMAIN f}

\* the approve commands issued so far are those of the first devices of the pending
\* list, in its order, each after the one before it has settled
InPendingOrder ==
    /\ Len(gw.commands) - 1 <= Len(gw.pending)
    /\ \A i \in 2..Len(gw.commands) : gw.commands[i] = ApproveCommand(gw.pending[i - 1])
    /\ Len(gw.commands) - 1 <= Len(gw.outcomes) + 1

\* approved and failed are disjoint and hold each pending device exactly once
Partitioned ==
    LET a == gw.response.approved
        f == RequestIdsOf(gw.response.failed)
    IN  /\ Range(a) \cap Range(f) = {}
        /\ Range(a) \cup Range(f) = Range(gw.pending)
        /\ Len(a) + Len(f) = Len(gw.pending)

\* C30 (as claimed): approve-all issues the approve commands one at a time in the
\* order of the pending list, attempts every pending device even after a failure or a
\* throw, and returns approved and failed lists, disjoint and together holding each
\* pending device once, with a message whose count is the size of approved.
C30_AsClaimed ==
    Approving =>
        /\ InPendingOrder
        /\ AnsweredListing =>
              /\ Len(gw.commands) - 1 = Len(gw.pending)
              /\ gw.response.hasFailed
              /\ Partitioned
              /\ gw.response.kind = "approved"
              /\ gw.response.count = Len(gw.response.approved)

\* C30 (amended): as claimed when the pending list is not empty; for an empty
\* pending list no approve command is issued and the response is approved: [] with
\* the message 'No pending devices to approve', without a failed list or a count.
C30_ApproveAll ==
    Approving =>
        /\ InPendingOrder
        /\ (AnsweredListing /\ gw.pending # <<>>) =>
              /\ Len(gw.commands) - 1 = Len(gw.pending)
              /\ gw.response.hasFailed
              /\ Partitioned
              /\ gw.response.kind = "approved"
              /\ gw.response.count = Len(gw.response.approved)
              /\ gw.response.total = Len(gw.pending)
        /\ (AnsweredListing /\ gw.pending = <<>>) =>
              /\ Len(gw.commands) = 1
              /\ gw.response.approved = <<>>
              /\ ~gw.response.hasFailed
              /\ gw.response.kind = "No pending devices to approve"

\* the first approve command threw, the second was still issued and succeeded
C30_Witness ==
    /\ AnsweredListing
    /\ Len(gw.pending) = 2
    /\ gw.outcomes[1].kind = "throw"
    /\ gw.response.approved = <<gw.pending[2]>>
    /\ RequestIdsOf(gw.response.failed) = <<gw.pending[1]>>
    /\ gw.response.count = 1


(***************************************************************************)
(* Concurrent relay sessions                                               *)
(***************************************************************************)
\* message events the transport delivers in each of two concurrent sessions
MaxPairFrames == 1

\* two calls of proxySelfHostedWebSocket whose sessions are live together
PairIds == {"s1", "s2"}

\* the session whose sockets the listeners installed by call s act on: serverWs and
\* backendWs are constants local to the call, captured by its eight listeners
CapturedShared(s) == "s1"
Captured(s) == s

\* events the transport raises in a session of the pair: a frame of each direction,
\* an error, a normal closure
PairEvents(r, side) ==
    {ev \in NextEvents(r, side) :
        \/ ev.type = "error"
        \/ ev.type = "close" /\ ev.code = 1000
        \/ /\ ev.type = "message" /\ Frames(r) < MaxPairFrames
           /\ ev.data.body \in {"hello", "err_pairing"}}

PairInit ==
    /\ sess = [s \in PairIds |-> NewSession("hint")]
    /\ env = [mode |-> TRUE, url |-> TRUE, token |-> TRUE, team |-> TRUE, aud |-> TRUE,
              dev |-> FALSE, debugRoutes |-> FALSE, auth |-> TRUE]
    /\ RouteIdle

\* the transport raises an event on a socket of session s
PairDeliver(s) ==
    /\ \E side \in Side : \E ev \in PairEvents(sess[s], side) :
           sess' = [sess EXCEPT ![s] = Arrive(@, side, ev)]
    /\ UNCHANGED <<routeVars, gw>>

\* the event loop runs the listener that call s installed on its socket `side`: the
\* platform records the event on that socket, the listener acts on the sockets it
\* captured
PairDispatch(s, side) ==
    /\ sess[s].handlers
    /\ sess[s].inq[side] # <<>>
    /\ LET ev == Head(sess[s].inq[side])
           seen == [sess EXCEPT ![s] = Observe([@ EXCEPT !.inq[side] = Tail(@)], side, ev)]
       IN  sess' = [seen EXCEPT ![Captured(s)] = Handle(@, side, ev)]
    /\ UNCHANGED <<routeVars, gw>>

PairNext ==
    \E s \in PairIds :
        \/ Invoke(s)
        \/ Answered(s)
        \/ PairDeliver(s)
        \/ PairDispatch(s, "server")
        \/ PairDispatch(s, "backend")

PairSpec == PairInit /\ [][PairNext]_vars

\* the step runs a listener of session s: one of its pending events is consumed
HandlesEventOf(s) ==
    \E side \in Side :
        /\ sess[s].inq[side] # <<>>
        /\ sess'[s].inq[side] = Tail(sess[s].inq[side])

\* C29: with two relay sessions live together, a step that runs a message, close or
\* error listener of one session makes no send and no close on a socket of the other
\* session, whatever the order in which the sessions' events are handled.
C29_SessionsAreIsolated ==
    [][\A s \in PairIds : \A t \in PairIds \ {s} :
          HandlesEventOf(s) =>
              /\ sess'[t].sent = sess[t].sent
              /\ sess'[t].closeCalls = sess[t].closeCalls
              /\ sess'[t].closedOut = sess[t].closedOut]_vars

\* both sessions are established; s2 relayed a frame and then had its backend close
\* and its client socket closed in turn, while s1 relayed a frame and is still open
C29_Witness ==
    /\ sess["s1"].pc = "established" /\ sess["s2"].pc = "established"
    /\ Len(sess["s2"].sent["server"]) = 1
    /\ sess["s2"].closeCalls["server"] # <<>>
    /\ Len(sess["s1"].sent["server"]) = 1
    /\ sess["s1"].closeCalls = [x \in Side |-> <<>>]
    /\ ReadyState(sess["s1"], "server") = "OPEN"
    /\ ReadyState(sess["s1"], "backend") = "OPEN"


(***************************************************************************)
(* The order of the middlewares                                            *)
(***************************************************************************)
\* the request was not served by a public or CDP route and has reached the
\* protected part of the pipeline
Protected ==
    req.route \in {"admin", "debug", "other"} /\ Len(req.stages) >= 2 /\ rpc # "idle"

\* the required-env middleware has answered the request itself
ValidationRejected ==
    /\ Protected /\ rpc = "done"
    /\ req.stages = <<"log", "validate">>

\* C31: a request no public or CDP route serves goes through the required-env
\* validation, then the identity verification, then its route handler; a request the
\* validation rejected never reaches the identity verification; the validation lets
\* a request with a missing setting through exactly when its path starts with /debug
\* or DEV_MODE is 'true'; a rejection is a 503, HTML when Accept includes text/html
\* and JSON otherwise.
C31_ValidateThenVerifyThenHandle ==
    Protected =>
        /\ req.stages[1] = "log" /\ req.stages[2] = "validate"
        /\ Len(req.stages) >= 3 => req.stages[3] \in {"access:pass", "access:reject"}
        /\ \A i \in 4..Len(req.stages) :
              req.stages[3] = "access:pass"
              /\ req.stages[i] \in {"adminAccess:pass", "adminAccess:reject", "admin", "catchall"}
        /\ (rpc \in {"routes", "adminHandler", "adminCall", "catchall", "catchProbe", "proxying"}) =>
              (Len(req.stages) >= 3 /\ req.stages[3] = "access:pass")
        /\ (rpc # "validate" /\ MissingNames(env) # {}) =>
              (ValidationRejected <=> ~(req.route = "debug" \/ env.dev))
        /\ (rpc # "validate" /\ MissingNames(env) = {}) => ~ValidationRejected
        /\ ValidationRejected =>
              /\ resp.status = 503
              /\ resp.kind = IF AcceptIncludesHtml THEN "html" ELSE "json"
              /\ calls = <<>>

\* a browser request for the admin API met a missing setting: HTML 503, and the
\* identity verification was never attempted
C31_Witness ==
    /\ ValidationRejected
    /\ req.route = "admin"
    /\ AcceptIncludesHtml
    /\ resp.status = 503 /\ resp.kind = "html"
    /\ ~Went("access:pass") /\ ~Went("access:reject")


(***************************************************************************)
(* GET /api/admin/devices                                                  *)
(***************************************************************************)
MaxDeviceRequests == 2

\* what the device listing prints: nothing, plain text, the JSON alone, the JSON
\* between log lines, braces around text that is not JSON, two objects, log lines
\* with braces of their own, braces in the wrong order
DeviceStdouts ==
    {"",
     "no devices",
     "{\"pending\":[],\"paired\":[]}",
     "[log] ok\n{\"pending\":[{\"requestId\":\"r1\"}],\"paired\":[]}\n",
     "{not json}",
     "{\"pending\":[],\"paired\":[]} {\"pending\":[],\"paired\":[]}",
     "warn {x}\n{\"pending\":[],\"paired\":[]}",
     "}{"}

\* results of the exec bridge: the stdout member may be absent or not a string
DeviceResults ==
    {[kind |-> "throw", stdout |-> JsUndefined, stderr |-> ""]}
        \cup {[kind |-> "return", stdout |-> o, stderr |-> e] :
                 o \in {JsString(x) : x \in DeviceStdouts} \cup {JsUndefined, JsNumber(5)},
                 e \in {"", "warning"}}

\* positions of a character in a string
Positions(s, ch) == {i \in 1..Len(s) : SubSeq(s, i, i) = ch}
Min(S) == CHOOSE x \in S : \A y \in S : x <= y
Max(S) == CHOOSE x \in S : \A y \in S : x >= y

\* stdout.match(/\{[\s\S]*\}/): from the first opening brace to the last closing
\* brace after it
BraceMatches(s) ==
    Positions(s, "{") # {} /\ \E j \in Positions(s, "}") : j > Min(Positions(s, "{"))
BraceMatch(s) ==
    SubSeq(s, Min(Positions(s, "{")), Max(Positions(s, "}")))

\* JSON.parse of a matched span
SpanParses(span) ==
    span \in {"{\"pending\":[],\"paired\":[]}",
              "{\"pending\":[{\"requestId\":\"r1\"}],\"paired\":[]}"}
ParseSpan(span) ==
    IF span = "{\"pending\":[],\"paired\":[]}"
    THEN [pending |-> <<>>, paired |-> <<>>]
    ELSE [pending |-> <<[requestId |-> "r1"]>>, paired |-> <<>>]

\* the raw-output answer
DevicesFallback(stdout, stderr, parseError) ==
    [status |-> 200, kind |-> "raw", data |-> [pending |-> <<>>, paired |-> <<>>],
     raw |-> stdout, stderr |-> stderr, parseError |-> parseError]
DevicesData(data) ==
    [status |-> 200, kind |-> "data", data |-> data,
     raw |-> JsUndefined, stderr |-> "", parseError |-> FALSE]
DevicesError ==
    [status |-> 500, kind |-> "error", data |-> [pending |-> <<>>, paired |-> <<>>],
     raw |-> JsUndefined, stderr |-> "", parseError |-> FALSE]

\* result.stdout || ''
OrEmpty(v) == IF Truthy(v) THEN v ELSE JsString("")

\* mutant of DevicesResponse: a span that does not parse is answered 500
DevicesResponseStrict(result) ==
    IF result.kind = "throw" THEN DevicesError
    ELSE LET stdout == OrEmpty(result.stdout)
         IN  IF stdout.t # "string"
             THEN DevicesFallback(stdout, result.stderr, TRUE)
             ELSE IF ~BraceMatches(stdout.v)
             THEN DevicesFallback(stdout, result.stderr, FALSE)
             ELSE IF SpanParses(BraceMatch(stdout.v))
             THEN DevicesData(ParseSpan(BraceMatch(stdout.v)))
             ELSE DevicesError

\* the handler once the exec bridge has settled: a stdout that is not a string makes
\* match throw inside the inner try, like a span that does not parse
DevicesResponse(result) ==
    IF result.kind = "throw" THEN DevicesError
    ELSE LET stdout == OrEmpty(result.stdout)
         IN  IF stdout.t # "string"
             THEN DevicesFallback(stdout, result.stderr, TRUE)
             ELSE IF ~BraceMatches(stdout.v)
             THEN DevicesFallback(stdout, result.stderr, FALSE)
             ELSE IF SpanParses(BraceMatch(stdout.v))
             THEN DevicesData(ParseSpan(BraceMatch(stdout.v)))
             ELSE DevicesFallback(stdout, result.stderr, TRUE)

DevicesInit ==
    /\ sess = [s \in SessionIds |-> NewSession("hint")]
    /\ env = [mode |-> TRUE, url |-> TRUE, token |-> TRUE, team |-> TRUE, aud |-> TRUE,
              dev |-> FALSE, debugRoutes |-> FALSE, auth |-> TRUE]
    /\ health = TRUE /\ req = NoRequest /\ rpc = "idle" /\ calls = <<>>
    /\ resp = NoResp /\ served = 0 /\ prev = NoPrev
    /\ gw = [fn |-> "devices", pc |-> "idle", log |-> <<>>]

Listing == gw.fn = "devices"

\* GET /api/admin/devices arrives: the handler issues the list command
DevicesRequest ==
    /\ Listing /\ gw.pc = "idle" /\ Len(gw.log) < MaxDeviceRequests
    /\ gw' = [gw EXCEPT !.pc = "awaiting"]
    /\ UNCHANGED <<relayVars, routeVars>>

\* the exec bridge settles and the handler answers
DevicesAnswer ==
    /\ Listing /\ gw.pc = "awaiting"
    /\ \E result \in DeviceResults :
          gw' = [gw EXCEPT !.pc = "idle",
                           !.log = Append(@, [result |-> result,
                                              response |-> DevicesResponse(result)])]
    /\ UNCHANGED <<relayVars, routeVars>>

DevicesNext == DevicesRequest \/ DevicesAnswer

DevicesSpec == DevicesInit /\ [][DevicesNext]_vars

\* the text between the first opening brace of s and its last closing brace is one of
\* the two listings
SpanIsListing(s) ==
    \E i, j \in 1..Len(s) :
        /\ SubSeq(s, i, i) = "{" /\ SubSeq(s, j, j) = "}"
        /\ \A k \in 1..(i - 1) : SubSeq(s, k, k) # "{"
        /\ \A k \in (j + 1)..Len(s) : SubSeq(s, k, k) # "}"
        /\ SubSeq(s, i, j) \in {"{\"pending\":[],\"paired\":[]}",
                                "{\"pending\":[{\"requestId\":\"r1\"}],\"paired\":[]}"}

\* C32: whenever the exec bridge returns a result, GET /api/admin/devices answers
\* 200: the parsed object when the span of stdout from its first opening brace to its
\* last closing brace parses as JSON, and otherwise empty pending and paired lists
\* with the stdout as it came from the bridge; unparseable output never gives an
\* error status.
C32_DevicesNeverFailOnOutput ==
    Listing =>
      \A i \in 1..Len(gw.log) :
        LET result == gw.log[i].result
            response == gw.log[i].response
        IN  result.kind = "return" =>
              /\ response.status = 200
              /\ (result.stdout.t = "string" /\ SpanIsListing(result.stdout.v)) =>
                    /\ response.kind = "data"
                    /\ response.data.paired = <<>>
                    /\ response.data.pending \in {<<>>, <<[requestId |-> "r1"]>>}
              /\ ~(result.stdout.t = "string" /\ SpanIsListing(result.stdout.v)) =>
                    /\ response.kind = "raw"
                    /\ response.data = [pending |-> <<>>, paired |-> <<>>]
                    /\ response.raw = (IF result.stdout = JsUndefined
                                       THEN JsString("") ELSE result.stdout)
                    /\ response.stderr = result.stderr

\* a listing between log lines was extracted, and braces around text that is not
\* JSON were answered 200 with the raw output
C32_Witness ==
    /\ Listing /\ Len(gw.log) = 2
    /\ gw.log[1].result.stdout =
          JsString("[log] ok\n{\"pending\":[{\"requestId\":\"r1\"}],\"paired\":[]}\n")
    /\ gw.log[1].response.data.pending = <<[requestId |-> "r1"]>>
    /\ gw.log[2].result.stdout = JsString("{not json}")
    /\ gw.log[2].response.status = 200
    /\ gw.log[2].response.raw = JsString("{not json}")
    /\ gw.log[2].response.parseError


(***************************************************************************)
(* The upstream host                                                       *)
(***************************************************************************)
\* the URL the WebSocket relay fetches for the upgrade
WsTargetUrl(config, request) ==
    LET url == ParseURL(request.url)
    IN ResolveURL(url.pathname \o (IF url.search = "" THEN <<>> ELSE <<url.search>>),
                  config.wsUrl)

\* scheme, host and port of a URL
Origin(u) == <<u.protocol, u.hostname, EffectivePort(u)>>

\* C33: whatever the inbound path and query, a path beginning with '//' included, the
\* URL the HTTP relay fetches has the scheme, host and port of config.baseUrl, and
\* the URL the WebSocket relay would fetch for the same request those of config.wsUrl.
C33_UpstreamIsTheBackend ==
    (Http /\ gw.requests # <<>>) =>
        /\ Origin(ParseURL(gw.requests[1].url)) = Origin(ParseURL(gw.config.baseUrl))
        /\ WsTargetUrl(gw.config, gw.request).valid =>
              Origin(WsTargetUrl(gw.config, gw.request)) = Origin(ParseURL(gw.config.wsUrl))


(***************************************************************************)
(* The upstream X-Internal-Auth                                            *)
(***************************************************************************)
\* the headers of the upgrade request of the WebSocket relay: the inbound headers,
\* with X-Internal-Auth set when a token is configured
WsUpgradeHeaders(config, h) ==
    IF config.authToken \in {Unset, ""}
    THEN h
    ELSE [n \in DOMAIN h \cup {"x-internal-auth"} |->
            IF n = "x-internal-auth" THEN config.authToken ELSE h[n]]

\* the X-Internal-Auth of a header set, when the configuration alone decides it: the
\* configured token, or no header
OnlyConfigured(config, h) ==
    IF config.authToken \in {Unset, ""}
    THEN "x-internal-auth" \notin DOMAIN h
    ELSE "x-internal-auth" \in DOMAIN h /\ h["x-internal-auth"] = config.authToken

\* C34: the X-Internal-Auth the HTTP relay and the WebSocket upgrade send upstream is
\* the configured token, or absent when no token is configured, whatever
\* X-Internal-Auth the client supplied.
C34_AuthHeaderFromConfigOnly ==
    (Http /\ gw.requests # <<>>) =>
        /\ OnlyConfigured(gw.config, gw.requests[1].headers)
        /\ OnlyConfigured(gw.config, WsUpgradeHeaders(gw.config, gw.request.headers))


(***************************************************************************)
(* Error and close on the same socket                                      *)
(***************************************************************************)
\* socket x of the session has had its error event and its close event handled
ErrorThenClose(r, x) == r.errorEvents[x] >= 1 /\ Len(r.closeEvents[x]) >= 1

ValidationAccepted ==
    /\ Protected /\ rpc # "validate"
    /\ ~ValidationRejected
    /\ ~env.dev /\ req.route # "debug"

\* C36: when the required-env middleware has let a request through outside DEV_MODE,
\* buildSelfHostedConfig returns a config for the same environment, and the admin and
\* catch-all handlers do not answer 'Self-hosted configuration missing'.
C36_AcceptedMeansConfigured ==
    ValidationAccepted =>
        /\ BuildSelfHostedConfig(env) # Null
        /\ resp.body # "Self-hosted configuration missing"


\* C37 (as claimed): buildSelfHostedConfig is total: for every environment, a
\* SELFHOSTED_URL that is not a well-formed absolute URL included, the call returns a
\* BackendConfig or null and raises nothing.
C37_ConfigIsTotal ==
    Resolved => gw.out.kind \in {"config", "null"}

====
